---- MODULE Spec2Model ----
(***************************************************************************)
(* A model of the awesomeyaml node tree and of its merge pipeline:         *)
(* ConfigNode flags, ComposedNode child management and nested_merge,       *)
(* ConfigList index handling, the Append/Extend premerge hooks and         *)
(* Builder.flatten.                                                        *)
(*                                                                         *)
(* Python objects are modelled as values.  A node is a record; the         *)
(* children of a composed node are the sequence of its (name, node)        *)
(* entries in insertion order, as in the _children dict.  An optional      *)
(* attribute (None or a value) is a sequence of length 0 or 1.             *)
(***************************************************************************)
EXTENDS Integers, Sequences, FiniteSets, TLC

----------------------------------------------------------------------------
(* Optional values *)

None == <<>>

Some(v) == <<v>>

True == Some(TRUE)

False == Some(FALSE)

notnone_or(value, alt) == IF value = None THEN alt ELSE value

\* a local variable: F with the value v bound to its parameter
Let(v, F(_)) == F(v)

\* truth value of an Optional[bool] (None is falsy)
Truthy(x) == x # None /\ x[1]

----------------------------------------------------------------------------
(* Names of children and paths *)

\* a str component of a path
StrKey(s) == [isint |-> FALSE, s |-> s, i |-> 0]

\* an int component of a path
IntKey(i) == [isint |-> TRUE, s |-> "", i |-> i]

WEAK == -1

STANDARD == 0

FORCE == 1

----------------------------------------------------------------------------
(* Nodes *)

\* BindNode and CallNode, the subclasses of FunctionNode, itself a ConfigDict
FunctionKinds == {"bind", "call"}

DictKinds == {"dict"} \cup FunctionKinds

ListKinds == {"list", "append", "extend"}

ComposedKinds == DictKinds \cup ListKinds

_is_composed(n) == n.kind \in ComposedKinds

isinstance_list(n) == n.kind \in ListKinds

isinstance_dict(n) == n.kind \in DictKinds

\* ConfigNode.__init__ with no explicit and no implicit flags, inside a
\* default_safe_flag(True) scope.  oid stands for the identity of the object (two
\* occurrences with one oid are one object); ref is the path an XRefNode names and
\* uses the top-level names the code of an EvalNode reads, in order.
ConfigNode_init(kind, value, children) ==
    [kind |-> kind, value |-> value, children |-> children,
     _priority |-> None, _delete |-> None, _allow_new |-> None,
     _implicit_delete |-> None, _implicit_allow_new |-> None,
     _safe |-> None, _implicit_safe |-> None, _default_safe |-> True,
     oid |-> 0, ref |-> <<>>, uses |-> <<>>]

_default_delete(n) == n.kind \in ListKinds \cup FunctionKinds

\* ConfigNode.ayns.safe
safe(n) ==
    /\ notnone_or(n._safe, True)[1]
    /\ notnone_or(n._implicit_safe, True)[1]
    /\ notnone_or(n._default_safe, False)[1]

_default_allow_new == TRUE

_default_priority == STANDARD

priority(n) == IF n._priority = None THEN _default_priority ELSE n._priority[1]

delete(n) ==
    IF n._delete = None
    THEN IF n._implicit_delete # None THEN n._implicit_delete[1] ELSE _default_delete(n)
    ELSE n._delete[1]

allow_new(n) ==
    IF n._implicit_allow_new # None THEN n._implicit_allow_new[1] ELSE _default_allow_new

explicit_delete(n) == n._delete

\* has_priority_over without the if_equal case
has_priority_over_strict(a, b, if_equal) == priority(a) > priority(b)

has_priority_over(a, b, if_equal) ==
    IF priority(a) = priority(b) THEN if_equal ELSE priority(a) > priority(b)

----------------------------------------------------------------------------
(* Children of a composed node: a sequence of [name, node] entries *)

Entry(name, node) == [name |-> name, node |-> node]

len(n) == Len(n.children)

\* position of `name` in _children, 0 when absent
_children_index(n, name) ==
    IF \E i \in 1..Len(n.children) : n.children[i].name = name
    THEN CHOOSE i \in 1..Len(n.children) : n.children[i].name = name
    ELSE 0

\* _children[name] = value: an existing key keeps its position, a new key goes last
_children_setitem(n, name, value) ==
    Let(_children_index(n, name), LAMBDA i :
        IF i = 0
        THEN [n EXCEPT !.children = Append(@, Entry(name, value))]
        ELSE [n EXCEPT !.children[i].node = value])

\* _children.pop(name, None)
_children_pop(n, name) ==
    Let(_children_index(n, name), LAMBDA i :
        IF i = 0 THEN n
        ELSE [n EXCEPT !.children = SubSeq(@, 1, i - 1) \o SubSeq(@, i + 1, Len(@))])

has_child(n, name) == _is_composed(n) /\ _children_index(n, name) # 0

\* result of ConfigList._validate_index: the raised exception ("" when none) and the index
_validate_index(self, index, strict) ==
    IF ~index.isint THEN [exc |-> "TypeError", index |-> 0]
    ELSE LET i == index.i
             a == IF i < 0 THEN -i ELSE i
         IN  IF (a > len(self) \/ i = len(self)) /\ strict
             THEN [exc |-> "IndexError", index |-> 0]
             ELSE LET j == IF i < 0 THEN len(self) + i ELSE i
                      lo == IF j < 0 THEN 0 ELSE j
                  IN  [exc |-> "", index |-> IF lo > len(self) THEN len(self) ELSE lo]

\* ConfigList._get(index, default=None, raise_ex=False) and ComposedNode.ayns.get_child:
\* None or Some(child)
get_child(self, name) ==
    IF isinstance_list(self)
    THEN Let(_validate_index(self, name, TRUE), LAMBDA v :
             IF v.exc # "" THEN None ELSE Some(self.children[v.index + 1].node))
    ELSE Let(_children_index(self, name), LAMBDA i :
             IF i = 0 THEN None ELSE Some(self.children[i].node))

----------------------------------------------------------------------------
(* Implicit flags handed from a parent to its children *)

\* has_implicit_safe / has_priority are FALSE when the 'implicit_safe' / 'priority'
\* keyword is not passed
_get_child_kwargs(self) ==
    [implicit_delete |-> notnone_or(self._delete,
                            IF _default_delete(self) THEN True ELSE self._implicit_delete),
     implicit_allow_new |-> notnone_or(self._allow_new, self._implicit_allow_new),
     has_implicit_safe |-> TRUE,
     implicit_safe |-> notnone_or(self._safe, self._implicit_safe),
     has_priority |-> FALSE, priority |-> None]

RECURSIVE _propagate_implicit_values(_)
\* helper of _propagate_implicit_values: the loop body for one child
_propagate_child(self, child) ==
    LET d == IF self._delete = None /\ child._implicit_delete # self._implicit_delete
             THEN self._implicit_delete ELSE child._implicit_delete
        a == IF self._allow_new = None /\ child._implicit_allow_new # self._implicit_allow_new
             THEN self._implicit_allow_new ELSE child._implicit_allow_new
        s == IF self._safe = None /\ child._implicit_safe # self._implicit_safe
                /\ child._implicit_safe # False
             THEN self._implicit_safe ELSE child._implicit_safe
        fix == d # child._implicit_delete \/ a # child._implicit_allow_new
               \/ s # child._implicit_safe
        c2 == [child EXCEPT !._implicit_delete = d, !._implicit_allow_new = a,
                            !._implicit_safe = s]
    IN  IF fix THEN _propagate_implicit_values(c2) ELSE c2

_propagate_implicit_values(self) ==
    IF ~_is_composed(self) THEN self
    ELSE IF self._implicit_delete = None /\ self._implicit_allow_new = None
            /\ self._implicit_safe = None THEN self
    ELSE IF self._delete # None /\ self._allow_new # None /\ self._safe # None THEN self
    ELSE [self EXCEPT !.children =
            [i \in 1..Len(self.children) |->
                Entry(self.children[i].name, _propagate_child(self, self.children[i].node))]]

\* ConfigNode(value, **kwargs) storing implicit_safe also over an inherited False
ConfigNodeMeta_call_overwrite(value, kwargs) ==
    _propagate_implicit_values(
        [value EXCEPT !._priority = IF kwargs.has_priority THEN kwargs.priority ELSE @,
                      !._implicit_delete = kwargs.implicit_delete,
                      !._implicit_allow_new = kwargs.implicit_allow_new,
                      !._implicit_safe = IF kwargs.has_implicit_safe
                                         THEN kwargs.implicit_safe ELSE @])

\* ConfigNode(value, **kwargs) for a value that already is a node
ConfigNodeMeta_call(value, kwargs) ==
    LET v2 == [value EXCEPT
                 !._priority = IF kwargs.has_priority THEN kwargs.priority ELSE @,
                 !._implicit_delete = kwargs.implicit_delete,
                 !._implicit_allow_new = kwargs.implicit_allow_new,
                 !._implicit_safe = IF kwargs.has_implicit_safe /\ value._implicit_safe # False
                                    THEN kwargs.implicit_safe ELSE @]
    IN  _propagate_implicit_values(v2)

\* ComposedNode.ayns.set_child
ComposedNode_set_child(self, name, value) ==
    LET v == ConfigNodeMeta_call(value, _get_child_kwargs(self))
    IN  _children_setitem(self, name, _propagate_implicit_values(v))

\* ConfigDict._set / ConfigList._set(strict=False) behind ayns.set_child:
\* [exc, self]
set_child(self, name, value) ==
    Let(IF isinstance_list(self) THEN _validate_index(self, name, FALSE)
        ELSE [exc |-> "", index |-> 0], LAMBDA v :
        IF v.exc # "" THEN [exc |-> v.exc, self |-> self]
        ELSE [exc |-> "",
              self |-> ComposedNode_set_child(
                           self, IF isinstance_list(self) THEN IntKey(v.index) ELSE name, value)])

RECURSIVE _del_shift(_, _)
\* the loop of ConfigList._del: self[i-1] = self[i] for i in index+1 .. len-1
_del_shift(self, i) ==
    IF i >= len(self) THEN self
    ELSE _del_shift(ComposedNode_set_child(self, IntKey(i - 1), self.children[i + 1].node), i + 1)

\* ConfigDict._del / ConfigList._del behind ayns.remove_child:
\* [exc, self, ret]; for a list the returned child is the one popped from the end
remove_child(self, name) ==
    IF isinstance_list(self)
    THEN Let(_validate_index(self, name, TRUE), LAMBDA v :
             IF v.exc # "" THEN [exc |-> v.exc, self |-> self, ret |-> None]
             ELSE Let(_del_shift(self, v.index + 1), LAMBDA shifted :
                      [exc |-> "",
                       self |-> _children_pop(shifted, IntKey(len(self) - 1)),
                       ret |-> Some(shifted.children[len(self)].node)]))
    ELSE Let(_children_index(self, name), LAMBDA i :
             IF i = 0 THEN [exc |-> "KeyError", self |-> self, ret |-> None]
             ELSE [exc |-> "", self |-> _children_pop(self, name),
                   ret |-> Some(self.children[i].node)])

----------------------------------------------------------------------------
(* Path lookup *)

RECURSIVE _get_node(_, _)
\* ComposedNode.ayns._get_node with intermediate=True, names=False, incomplete=True
\* and the access/query functions of get_node: the visited nodes, root first,
\* each as Some(node), ending with None for the first missing component
_get_node(root, path) ==
    IF path = <<>> THEN <<Some(root)>>
    ELSE IF ~has_child(root, Head(path)) THEN <<Some(root), None>>
    ELSE <<Some(root)>> \o _get_node(get_child(root, Head(path))[1], Tail(path))

\* get_node(path, incomplete=None): None or Some(node)
get_node(root, path) == Let(_get_node(root, path), LAMBDA nodes : nodes[Len(nodes)])

get_first_not_missing_node(root, path) ==
    Let(_get_node(root, path), LAMBDA nodes :
        IF nodes[Len(nodes)] # None THEN nodes[Len(nodes)][1] ELSE nodes[Len(nodes) - 1][1])

RECURSIVE nodes_with_paths(_, _, _)
\* ComposedNode.ayns.nodes_with_paths(prefix, include_self) with recursive=True,
\* allow_duplicates=True: the sequence of [path, node] in the order of the generator;
\* for a scalar the single entry of ConfigNode.ayns._require_all_new
nodes_with_paths(self, prefix, include_self) ==
    LET RECURSIVE sub(_)
        sub(i) == IF i > Len(self.children) THEN <<>>
                  ELSE nodes_with_paths(self.children[i].node,
                                        Append(prefix, self.children[i].name), TRUE)
                       \o sub(i + 1)
        me == IF include_self THEN <<[path |-> prefix, node |-> self]>> ELSE <<>>
    IN  IF _is_composed(self) THEN me \o sub(1) ELSE me

\* _require_all_new without its check
_require_all_new_skip(self, path, exceptions, include_self) == [exc |-> "", epath |-> <<>>]

\* _require_all_new(path, reason, exceptions, include_self): [exc, epath],
\* epath the path named by the ValueError
_require_all_new(self, path, exceptions, include_self) ==
    Let(nodes_with_paths(self, path, include_self), LAMBDA seq :
    Let({i \in 1..Len(seq) : ~allow_new(seq[i].node) /\ seq[i].path \notin exceptions},
        LAMBDA bad :
        IF bad = {} THEN [exc |-> "", epath |-> <<>>]
        ELSE [exc |-> "ValueError",
              epath |-> seq[CHOOSE i \in bad : \A j \in bad : i <= j].path]))

----------------------------------------------------------------------------
(* Merging *)

\* bool(node): a scalar by its value, a list or dict by being non-empty, a function
\* node by its function name (FunctionNode.__bool__), which is never empty
bool(n) ==
    IF n.kind \in FunctionKinds THEN TRUE
    ELSE IF _is_composed(n) THEN len(n) > 0 ELSE n.value # 0

\* maybe_keep of nested_merge
maybe_keep(other, path, node) ==
    has_priority_over(node, get_first_not_missing_node(other, path), FALSE)

\* position in self.children of the child that get_child(self, name) returns
_child_pos(self, name) ==
    IF isinstance_list(self) THEN _validate_index(self, name, TRUE).index + 1
    ELSE _children_index(self, name)

RECURSIVE _remove_all(_, _, _)
\* for name in reversed(to_del): self.ayns.remove_child(name)
_remove_all(self, to_del, k) ==
    IF k = 0 THEN self
    ELSE _remove_all(remove_child(self, to_del[k]).self, to_del, k - 1)

RECURSIVE _to_del(_, _, _, _, _)
\* the names filter_nodes collects in to_del, from the i-th child on; sub[i] is the
\* outcome of filter_nodes on the i-th child
_to_del(self, other, prefix, sub, i) ==
    IF i > Len(self.children) THEN <<>>
    ELSE LET name == self.children[i].name
             child == self.children[i].node
             keep == maybe_keep(other, Append(prefix, name), child)
                     \/ (_is_composed(child) /\ bool(sub[i].self))
         IN  (IF keep THEN <<>> ELSE <<name>>) \o _to_del(self, other, prefix, sub, i + 1)

RECURSIVE filter_nodes(_, _, _)
\* ComposedNode.ayns.filter_nodes(maybe_keep, prefix, removed) as nested_merge
\* calls it: [exc, self, removed].  A scalar `other` has no
\* get_first_not_missing_node, so the first call of the condition raises.
filter_nodes(self, other, prefix) ==
    IF len(self) > 0 /\ ~_is_composed(other)
    THEN [exc |-> "AttributeError", self |-> self, removed |-> {}]
    ELSE
    Let([i \in 1..Len(self.children) |->
            IF _is_composed(self.children[i].node)
            THEN filter_nodes(self.children[i].node, other,
                              Append(prefix, self.children[i].name))
            ELSE [exc |-> "", self |-> self.children[i].node, removed |-> {}]], LAMBDA sub :
    Let(_to_del(self, other, prefix, sub, 1), LAMBDA td :
        [exc |-> "",
         self |-> _remove_all([self EXCEPT !.children =
                                  [i \in 1..Len(self.children) |->
                                      Entry(self.children[i].name, sub[i].self)]],
                              td, Len(td)),
         removed |-> UNION {sub[i].removed : i \in 1..Len(self.children)}
                     \cup {Append(prefix, td[k]) : k \in 1..Len(td)}]))

\* an exception leaving nested_merge: its type, the path named in its message and
\* the state in which it leaves the destination node
Raise(exc, epath, self) ==
    [exc |-> exc, epath |-> epath, ret |-> self, is_self |-> TRUE, self |-> self]

\* a normal return of nested_merge: `ret` is the returned node, is_self tells whether
\* it is the destination object, `self` is the destination object after the call
Return(ret, is_self, self) ==
    [exc |-> "", epath |-> <<>>, ret |-> ret, is_self |-> is_self, self |-> self]

RECURSIVE nested_merge(_, _, _)
RECURSIVE _merge_children(_, _, _, _)
\* the loop `for key, value in other._children.items()` of nested_merge, from the
\* i-th entry on: [exc, epath, self]
_merge_children(self, other, prefix, i) ==
    IF i > Len(other.children) THEN [exc |-> "", epath |-> <<>>, self |-> self]
    ELSE
    LET key == other.children[i].name
        value == other.children[i].node
        kpath == Append(prefix, key)
        fail(exc, epath, s) == [exc |-> exc, epath |-> epath, self |-> s]
    IN  Let(get_child(self, key), LAMBDA child :
        IF child = None
        THEN Let(_require_all_new(value, kpath, {}, TRUE), LAMBDA r :
                 IF r.exc # "" THEN fail(r.exc, r.epath, self)
                 ELSE Let(set_child(self, key, value), LAMBDA s :
                          IF s.exc # "" THEN fail(s.exc, kpath, self)
                          ELSE _merge_children(s.self, other, prefix, i + 1)))
        ELSE
        Let(IF _is_composed(child[1]) THEN nested_merge(child[1], value, kpath)
            ELSE Raise("AttributeError", kpath, child[1]), LAMBDA m :
        \* self1: the child object as the call left it, still stored under key
        Let([self EXCEPT !.children[_child_pos(self, key)].node = m.self], LAMBDA self1 :
            IF m.exc = ""
            THEN IF ~bool(m.ret) /\ ~has_priority_over(m.ret, value, FALSE)
                    /\ Truthy(explicit_delete(value))
                 THEN _merge_children(remove_child(self1, key).self, other, prefix, i + 1)
                 ELSE IF ~m.is_self
                 THEN _merge_children(set_child(self1, key, m.ret).self, other, prefix, i + 1)
                 ELSE _merge_children(self1, other, prefix, i + 1)
            ELSE IF m.exc \in {"TypeError", "AttributeError"}
            THEN Let(_require_all_new(value, kpath, {}, FALSE), LAMBDA r :
                     IF r.exc # "" THEN fail(r.exc, r.epath, self1)
                     ELSE IF has_priority_over(value, m.self, TRUE)
                     THEN IF ~bool(value) /\ Truthy(explicit_delete(value))
                          THEN _merge_children(remove_child(self1, key).self,
                                               other, prefix, i + 1)
                          ELSE _merge_children(set_child(self1, key, value).self,
                                               other, prefix, i + 1)
                     ELSE _merge_children(self1, other, prefix, i + 1))
            ELSE fail(m.exc, m.epath, self1))))

\* ComposedNode.ayns.nested_merge(self, other, prefix)
nested_merge(self, other, prefix) ==
    Let(IF delete(other) THEN filter_nodes(self, other, prefix)
        ELSE [exc |-> "", self |-> self, removed |-> {}], LAMBDA f :
    IF f.exc # "" THEN Raise(f.exc, prefix, self)
    ELSE IF delete(other) /\ len(f.self) = 0 /\ has_priority_over(other, f.self, TRUE)
    THEN Let(_require_all_new(other, prefix, f.removed \cup {prefix}, TRUE), LAMBDA r :
             IF r.exc # "" THEN Raise(r.exc, r.epath, f.self)
             ELSE Return(other, FALSE, f.self))
    ELSE IF ~_is_composed(other) THEN Raise("AttributeError", prefix, f.self)
    ELSE Let(_merge_children(f.self, other, prefix, 1), LAMBDA l :
             IF l.exc # "" THEN Raise(l.exc, l.epath, l.self)
             ELSE IF has_priority_over(other, l.self, TRUE)
             THEN Let([l.self EXCEPT !._priority = other._priority,
                                     !._delete = other._delete,
                                     !._implicit_delete = other._implicit_delete],
                      LAMBDA s : Return(s, TRUE, s))
             ELSE Return(l.self, TRUE, l.self)))

----------------------------------------------------------------------------
(* Premerge: Append and Extend nodes *)

RECURSIVE _wrap_children(_, _, _)
\* { i: ConfigNode(child, **kwargs) for i, child in enumerate(value) } of
\* ConfigList.__init__ / ComposedNode.__init__, children already being nodes
_wrap_children(children, kwargs, i) ==
    IF i > Len(children) THEN <<>>
    ELSE <<Entry(IntKey(i - 1), ConfigNodeMeta_call(children[i].node, kwargs))>>
         \o _wrap_children(children, kwargs, i + 1)

\* ConfigList(value) for a list node `value`: a new plain list holding its elements
ConfigList(value) ==
    LET new == ConfigNode_init("list", 0, <<>>)
    IN  [new EXCEPT !.children = _wrap_children(value.children, _get_child_kwargs(new), 1)]

\* ConfigList.append
append(self, value) == ComposedNode_set_child(self, IntKey(len(self)), value)

RECURSIVE extend(_, _, _)
\* ConfigList.extend(other), from the i-th element of other on
extend(self, other, i) ==
    IF i > Len(other.children) THEN self
    ELSE extend(append(self, other.children[i].node), other, i + 1)

hasattr_extend(node) == isinstance_list(node)

RECURSIVE _remove_node(_, _)
\* ComposedNode.ayns.remove_node(path): [exc, root, ret], ret = None when the
\* path does not exist
_remove_node(root, path) ==
    IF get_node(root, path) = None THEN [exc |-> "", root |-> root, ret |-> None]
    ELSE IF path = <<>> THEN [exc |-> "ValueError", root |-> root, ret |-> None]
    ELSE IF Len(path) = 1
    THEN Let(remove_child(root, path[1]), LAMBDA r :
             [exc |-> r.exc, root |-> r.self, ret |-> r.ret])
    ELSE Let(_children_index(root, Head(path)), LAMBDA pos :
         Let(_remove_node(root.children[pos].node, Tail(path)), LAMBDA r :
             [exc |-> r.exc, root |-> [root EXCEPT !.children[pos].node = r.root],
              ret |-> r.ret]))

\* outcome of an on_premerge hook: the raised error (exc = "" when none, msg tells
\* which), the node the hook returns and the destination tree after the hook
PremergeOutcome(exc, msg, epath, node, into) ==
    [exc |-> exc, msg |-> msg, epath |-> epath, node |-> node, into |-> into]

MsgNotExist == "does not exist in the previous context"

MsgNoExtend == "has no attribute 'extend'"

MsgNotNew == "requires that the destination already exists"

\* AppendNode.ayns.on_premerge_impl behind the rethrow of on_premerge;
\* `into` is None or Some(destination root)
AppendNode_on_premerge_impl(self, path, into) ==
    IF into = None THEN PremergeOutcome("", "", <<>>, ConfigList(self), into)
    ELSE
    Let(_remove_node(into[1], path), LAMBDA r :
        IF r.exc # "" THEN PremergeOutcome("PremergeError", r.exc, path, self, Some(r.root))
        ELSE IF r.ret = None
        THEN PremergeOutcome("PremergeError", MsgNotExist, path, self, Some(r.root))
        ELSE IF ~hasattr_extend(r.ret[1])
        THEN PremergeOutcome("PremergeError", MsgNoExtend, path, self, Some(r.root))
        ELSE PremergeOutcome("", "", <<>>, extend(r.ret[1], self, 1), Some(r.root)))

\* an Extend node as strict about its target as an Append node
ExtendNode_on_premerge_impl_strict(self, path, into) ==
    AppendNode_on_premerge_impl(self, path, into)

\* ExtendNode.ayns.on_premerge_impl
ExtendNode_on_premerge_impl(self, path, into) ==
    Let(IF into = None THEN None ELSE get_node(into[1], path), LAMBDA node :
        IF node # None /\ hasattr_extend(node[1])
        THEN Let(_remove_node(into[1], path), LAMBDA r :
                 IF r.exc # ""
                 THEN PremergeOutcome("PremergeError", r.exc, path, self, Some(r.root))
                 ELSE PremergeOutcome("", "", <<>>, extend(node[1], self, 1), Some(r.root)))
        ELSE PremergeOutcome("", "", <<>>, ConfigList(self), into))

\* node.ayns.on_premerge(path, into)
on_premerge(self, path, into) ==
    IF self.kind = "append" THEN AppendNode_on_premerge_impl(self, path, into)
    ELSE IF self.kind = "extend" THEN ExtendNode_on_premerge_impl(self, path, into)
    ELSE PremergeOutcome("", "", <<>>, self, into)

RECURSIVE _re_set(_, _, _)
\* the second loop of map_nodes: self.ayns.set_child(name, x) for the children
\* that the map replaced by another object
_re_set(self, to_re_set, k) ==
    IF k > Len(to_re_set) THEN self
    ELSE _re_set(set_child(self, to_re_set[k].name, to_re_set[k].node).self, to_re_set, k + 1)

RECURSIVE map_nodes(_, _, _)
RECURSIVE _map_children(_, _, _, _, _)
\* the loops of map_nodes over the children of self from the i-th on: children
\* that stay the same object are updated in place, those replaced by another
\* object (to_re_set) are set again with set_child after the first loop
_map_children(self, prefix, into, i, to_re_set) ==
    IF i > Len(self.children)
    THEN PremergeOutcome("", "", <<>>, _re_set(self, to_re_set, 1), into)
    ELSE
    LET name == self.children[i].name
        child == self.children[i].node
        same == child.kind \notin {"append", "extend"}
    IN  Let(map_nodes(child, Append(prefix, name), into), LAMBDA r :
            IF r.exc # "" THEN r
            ELSE _map_children(IF same THEN [self EXCEPT !.children[i].node = r.node] ELSE self,
                               prefix, r.into, i + 1,
                               IF same THEN to_re_set
                               ELSE Append(to_re_set, Entry(name, r.node))))

\* ComposedNode.ayns.premerge(into) = map_nodes(on_premerge, leafs_only=False);
\* for a node that is not composed, the map applied to the node itself
map_nodes(self, prefix, into) ==
    Let(IF _is_composed(self) THEN _map_children(self, prefix, into, 1, <<>>)
        ELSE PremergeOutcome("", "", <<>>, self, into), LAMBDA c :
        IF c.exc # "" THEN c ELSE on_premerge(c.node, prefix, c.into))

premerge(self, into) == map_nodes(self, <<>>, into)

\* outcome of ComposedNode.ayns.merge: the error, if any, and the returned root
MergeOutcome(exc, msg, epath, root) == [exc |-> exc, msg |-> msg, epath |-> epath, root |-> root]

\* ComposedNode.ayns.merge(self, other)
merge(self, other) ==
    Let(premerge(other, Some(self)), LAMBDA p :
        IF p.exc # "" THEN MergeOutcome(p.exc, p.msg, p.epath, p.into[1])
        ELSE Let(nested_merge(p.into[1], p.node, <<>>), LAMBDA m :
                 IF m.exc # ""
                 THEN MergeOutcome(m.exc, IF m.exc = "ValueError" THEN MsgNotNew ELSE "",
                                   m.epath, m.self)
                 ELSE MergeOutcome("", "", <<>>, m.ret)))

----------------------------------------------------------------------------
(* Construction of nodes, as the parser and the Python API do it *)

\* the explicit flags given to a constructor; None = keyword not passed
Flags(prio, del, new) == [priority |-> prio, delete |-> del, allow_new |-> new, safe |-> None]

\* the keyword safe=False alone
Unsafe == [Flags(None, None, None) EXCEPT !.safe = False]

NoFlags == Flags(None, None, None)

\* ConfigScalar(value, **flags)
ConfigScalar(value, flags) ==
    [ConfigNode_init("scalar", value, <<>>) EXCEPT
        !._priority = flags.priority, !._delete = flags.delete, !._allow_new = flags.allow_new,
        !._safe = flags.safe]

\* ComposedNode.__init__(children, **flags) for children that already are nodes:
\* every child is passed through ConfigNode(child, **kwargs) with the priority
\* keyword (when given) and the implicit flags of _get_child_kwargs
ComposedNode_init(kind, entries, flags) ==
    LET self == [ConfigNode_init(kind, 0, <<>>) EXCEPT
                    !._priority = flags.priority, !._delete = flags.delete,
                    !._allow_new = flags.allow_new, !._safe = flags.safe]
        kwargs == [_get_child_kwargs(self) EXCEPT
                    !.has_priority = flags.priority # None, !.priority = flags.priority]
    IN  [self EXCEPT !.children =
            [i \in 1..Len(entries) |->
                Entry(entries[i].name, ConfigNodeMeta_call(entries[i].node, kwargs))]]

ConfigDict(entries, flags) == ComposedNode_init("dict", entries, flags)

\* ConfigList(value, **flags), AppendNode(value, **flags), ExtendNode(value, **flags)
ListNode(kind, elems, flags) ==
    ComposedNode_init(kind, [i \in 1..Len(elems) |-> Entry(IntKey(i - 1), elems[i])], flags)

----------------------------------------------------------------------------
(* Builder.flatten *)

\* the first part of Builder.flatten: premerge of stages[0] with no destination and
\* the check that nothing in it requires an existing destination
flatten_first(stage) ==
    Let(premerge(stage, None), LAMBDA p :
        IF p.exc # "" THEN MergeOutcome(p.exc, p.msg, p.epath, p.node)
        ELSE Let(_require_all_new(p.node, <<>>, {}, TRUE), LAMBDA r :
                 IF r.exc # "" THEN MergeOutcome("MergeError", MsgNotNew, r.epath, p.node)
                 ELSE MergeOutcome("", "", <<>>, p.node)))

----------------------------------------------------------------------------
(* Evaluation: EvalContext.evaluate and the on_evaluate hooks *)

\* XRefNode(ref): a reference to the node at path ref
XRefNode(ref, flags) == [ConfigScalar(0, flags) EXCEPT !.kind = "xref", !.ref = ref]

\* EvalNode(code): code that reads the top-level names `uses`, in order, and then
\* yields `value`
EvalNode(value, uses, flags) == [ConfigScalar(value, flags) EXCEPT !.kind = "eval", !.uses = uses]

\* RequiredNode(None)
RequiredNode == ConfigNode_init("required", 0, <<>>)

\* FunctionNode.__init__ for BindNode / CallNode: a dict of arguments, delete
\* defaulting to True
FunctionNode(kind, entries, flags) ==
    ComposedNode_init(kind, entries, [flags EXCEPT !.delete = notnone_or(@, True)])

\* the object n under the identity id
Obj(n, id) == [n EXCEPT !.oid = id]

\* evaluated values: an int, a Bunch (dict) or list of evaluated items, the partial
\* of a BindNode, the result of the call of a CallNode, a PartialChild
Value(t, v, items) == [t |-> t, v |-> v, items |-> items]

IntValue(v) == Value("int", v, <<>>)

NoValue == Value("none", 0, <<>>)

PartialChild == Value("PartialChild", 0, <<>>)

\* EvalContext.__init__ and the start of evaluate: empty caches, an empty ecfg (of
\* which the top level is kept: top-level name -> evaluated value or PartialChild),
\* no safe scope, an empty stack; depth is the number of evaluate_node calls in
\* progress, hooks counts the runs of on_evaluate per object, active holds the
\* objects of the evaluate_node calls in progress, outermost first, and
\* reentered tells whether evaluate_node was entered for one of them
EvalContext_init ==
    [_eval_cache |-> <<>>, _eval_cache_id |-> <<>>, _ecfg |-> <<>>,
     _require_all_safe |-> FALSE, _eval_stack |-> <<>>, depth |-> 0, hooks |-> <<>>,
     active |-> <<>>, reentered |-> FALSE]

\* d[k] = v for a dict d given as a function
_setitem(d, k, v) == [x \in DOMAIN d \cup {k} |-> IF x = k THEN v ELSE d[x]]

\* outcome of an evaluation step: the raised error (exc = "" when none), the
\* context after it and the value returned
EvalOutcome(exc, msg, epath, ctx, val) ==
    [exc |-> exc, msg |-> msg, epath |-> epath, ctx |-> ctx, val |-> val]

\* the outcome of a loop that does not terminate: nothing after it runs
Diverges == "does not terminate"

\* the depth of nested evaluate_node calls at which the interpreter raises
\* RecursionError (sys.getrecursionlimit, scaled to the trees evaluated here)
RecursionLimit == 5

MsgUnsafe == "the current context requires all evaluated nodes to be safe"

MsgAvoid == "Avoiding execution of an !unsafe node"

MsgDependency == "The node requires all dependencies to be safe"

MsgMissingRef == "is missing, while following a chain of references"

MsgRequired == "RequiredNode should not appear during evaluation"

MsgNotSet == "The following required nodes have not been set"

\* PartialChild.get_or_set on the top level of ecfg
get_or_set(ctx, key) ==
    IF key \in DOMAIN ctx._ecfg THEN ctx
    ELSE [ctx EXCEPT !._ecfg = _setitem(@, key, PartialChild)]

\* an end of evaluate_node that does not remember the object it evaluated
_store_by_path_only(ctx, prefix, cfgobj, evaluated) ==
    [ctx EXCEPT !._ecfg = IF Len(prefix) = 1 THEN _setitem(@, prefix[1], evaluated) ELSE @,
                !._eval_cache = _setitem(@, prefix, evaluated),
                !._eval_stack = SubSeq(@, 1, Len(@) - 1),
                !.active = SubSeq(@, 1, Len(@) - 1),
                !.depth = @ - 1]

\* the end of evaluate_node: the value goes to the evaluated parent and to both caches
_store(ctx, prefix, cfgobj, evaluated) ==
    [ctx EXCEPT !._ecfg = IF Len(prefix) = 1 THEN _setitem(@, prefix[1], evaluated) ELSE @,
                !._eval_cache = _setitem(@, prefix, evaluated),
                !._eval_cache_id = _setitem(@, cfgobj.oid, evaluated),
                !._eval_stack = SubSeq(@, 1, Len(@) - 1),
                !.active = SubSeq(@, 1, Len(@) - 1),
                !.depth = @ - 1]

\* EvalContext.require_all_safe: the body's outcome o, the flag set back to old
\* and an UnsafeError turned into the EvalError of the node at path
_leave_safe_scope(o, old, path) ==
    IF o.exc = Diverges THEN o
    ELSE Let([o.ctx EXCEPT !._require_all_safe = old], LAMBDA c :
             IF o.exc = "UnsafeError" THEN EvalOutcome("EvalError", MsgDependency, path, c, NoValue)
             ELSE [o EXCEPT !.ctx = c])

RECURSIVE evaluate_node(_, _, _, _)
RECURSIVE _evaluate_children(_, _, _, _, _, _)
RECURSIVE _follow(_, _, _, _)
RECURSIVE _read_names(_, _, _, _)

\* ConfigDict / ConfigList.ayns.on_evaluate_impl: the children from the i-th on
\* are evaluated in order, acc holding the evaluated items so far
_evaluate_children(ctx, cfg, self, path, i, acc) ==
    IF i > Len(self.children)
    THEN EvalOutcome("", "", <<>>, ctx,
                     Value(IF isinstance_list(self) THEN "list" ELSE self.kind, 0, acc))
    ELSE Let(evaluate_node(ctx, cfg, self.children[i].node, Append(path, self.children[i].name)),
             LAMBDA e :
             IF e.exc # "" THEN e
             ELSE _evaluate_children(e.ctx, cfg, self, path, i + 1,
                                     Append(acc, [name |-> self.children[i].name, val |-> e.val])))

\* the loop of XRefNode.ayns.on_evaluate_impl with curr an XRefNode and seen the
\* references followed so far, and the evaluate_node call that ends it.  The loop
\* reads only curr and the cache, which it does not change: when it comes back to
\* a reference it has followed, it goes round for ever.
_follow(ctx, cfg, curr, seen) ==
    IF curr.ref \in DOMAIN ctx._eval_cache
    THEN EvalOutcome("", "", <<>>, ctx, ctx._eval_cache[curr.ref])
    ELSE Let(get_node(cfg, curr.ref), LAMBDA found :
             IF found = None THEN EvalOutcome("ValueError", MsgMissingRef, curr.ref, ctx, NoValue)
             ELSE IF found[1].kind # "xref" THEN evaluate_node(ctx, cfg, found[1], curr.ref)
             ELSE IF curr.ref \in seen THEN EvalOutcome(Diverges, "", curr.ref, ctx, NoValue)
             ELSE _follow(ctx, cfg, found[1], seen \cup {curr.ref}))

\* the code of an EvalNode reading its names from the i-th on:
\* GlobalsWrapper.__getattr__ and PartialChild.__getitem__ on ctx.ecfg
_read_names(ctx, cfg, self, i) ==
    IF i > Len(self.uses) THEN EvalOutcome("", "", <<>>, ctx, IntValue(self.value))
    ELSE IF ~has_child(cfg, self.uses[i])
    THEN EvalOutcome("NameError", "", <<self.uses[i]>>, ctx, NoValue)
    ELSE IF self.uses[i] \in DOMAIN ctx._ecfg THEN _read_names(ctx, cfg, self, i + 1)
    ELSE Let(evaluate_node([ctx EXCEPT !._require_all_safe = TRUE], cfg,
                           get_child(cfg, self.uses[i])[1], <<self.uses[i]>>), LAMBDA o :
         Let(_leave_safe_scope(o, ctx._require_all_safe, <<>>), LAMBDA e :
             IF e.exc # "" THEN e ELSE _read_names(e.ctx, cfg, self, i + 1)))

\* node.ayns.on_evaluate_impl of every kind of node
on_evaluate_impl(ctx, cfg, self, path) ==
    IF self.kind \in FunctionKinds
    THEN IF ~safe(self) THEN EvalOutcome("UnsafeError", MsgAvoid, path, ctx, NoValue)
         ELSE _leave_safe_scope(
                  _evaluate_children([ctx EXCEPT !._require_all_safe = TRUE], cfg, self, path, 1, <<>>),
                  ctx._require_all_safe, path)
    ELSE IF _is_composed(self) THEN _evaluate_children(ctx, cfg, self, path, 1, <<>>)
    ELSE IF self.kind = "xref" THEN _follow(ctx, cfg, self, {})
    ELSE IF self.kind = "eval"
    THEN IF ~safe(self) THEN EvalOutcome("UnsafeError", MsgAvoid, path, ctx, NoValue)
         ELSE Let(_read_names(ctx, cfg, self, 1), LAMBDA e :
                  IF e.exc \in {"", Diverges} THEN e
                  ELSE EvalOutcome("EvalError", e.msg, path, e.ctx, NoValue))
    ELSE EvalOutcome("", "", <<>>, ctx, IntValue(self.value))

\* node.ayns.on_evaluate behind rethrow_as_eval_error; RequiredNode.ayns.on_evaluate
on_evaluate(ctx, cfg, self, path) ==
    Let([ctx EXCEPT !.hooks = _setitem(@, self.oid,
                                      IF self.oid \in DOMAIN @ THEN @[self.oid] + 1 ELSE 1)],
        LAMBDA c :
        IF self.kind = "required" THEN EvalOutcome("ValueError", MsgRequired, path, c, NoValue)
        ELSE Let(on_evaluate_impl(c, cfg, self, path), LAMBDA e :
                 IF e.exc \in {"", "EvalError", "UnsafeError", Diverges} THEN e
                 ELSE EvalOutcome("EvalError", e.msg, path, e.ctx, NoValue)))

\* EvalContext.evaluate_node(cfgobj, prefix) for a node cfgobj
evaluate_node(ctx, cfg, cfgobj, prefix) ==
    Let([ctx EXCEPT !._eval_stack = Append(@, prefix), !.depth = @ + 1,
                    !.reentered = @ \/ \E k \in DOMAIN ctx.active : ctx.active[k] = cfgobj.oid,
                    !.active = Append(@, cfgobj.oid)], LAMBDA c :
        IF c.depth > RecursionLimit
        THEN EvalOutcome("RecursionError", "", prefix, c, NoValue)
        ELSE IF c._require_all_safe /\ ~safe(cfgobj)
        THEN EvalOutcome("UnsafeError", MsgUnsafe, prefix, c, NoValue)
        ELSE IF cfgobj.oid \in DOMAIN c._eval_cache_id
        THEN EvalOutcome("", "", <<>>,
                         [c EXCEPT !.depth = @ - 1, !.active = SubSeq(@, 1, Len(@) - 1)],
                         c._eval_cache_id[cfgobj.oid])
        ELSE Let(on_evaluate(IF Len(prefix) >= 2 THEN get_or_set(c, prefix[1]) ELSE c,
                             cfg, cfgobj, prefix), LAMBDA e :
                 IF e.exc # "" THEN e
                 ELSE EvalOutcome("", "", <<>>, _store(e.ctx, prefix, cfgobj, e.val), e.val)))

\* EvalContext.evaluate(config_dict); the caches are cleared at the end, the
\* count of hook runs is kept
EvalContext_evaluate(config_dict) ==
    Let(evaluate_node(EvalContext_init, config_dict, config_dict, <<>>), LAMBDA e :
        [e EXCEPT !.ctx._eval_cache = <<>>, !.ctx._eval_cache_id = <<>>, !.ctx._ecfg = <<>>])

\* a check_missing that reports the first RequiredNode only
check_missing_first(cfgd) ==
    Let(nodes_with_paths(cfgd, <<>>, FALSE), LAMBDA seq :
        Let(SelectSeq([k \in 1..Len(seq) |-> seq[k]], LAMBDA e : e.node.kind = "required"),
            LAMBDA all : IF all = <<>> THEN all ELSE <<all[1]>>))

\* Config.check_missing: the paths of the RequiredNode objects, in order
check_missing(cfgd) ==
    Let(nodes_with_paths(cfgd, <<>>, FALSE), LAMBDA seq :
        SelectSeq([k \in 1..Len(seq) |-> seq[k]], LAMBDA e : e.node.kind = "required"))

\* copy.deepcopy of a tree: new objects of the same content, shared as in the
\* original
deepcopy(cfgd) == cfgd

\* outcome of Config.__init__(config_dict): the error, the paths it lists, the
\* count of hook runs and the evaluated content
ConfigOutcome(exc, msg, missing, hooks, val) ==
    [exc |-> exc, msg |-> msg, missing |-> missing, hooks |-> hooks, val |-> val]

\* Config.__init__(config_dict) for a ConfigDict
Config_init(config_dict) ==
    IF len(config_dict) = 0 THEN ConfigOutcome("", "", <<>>, <<>>, Value("dict", 0, <<>>))
    ELSE Let(check_missing(config_dict), LAMBDA missing :
         IF missing # <<>>
         THEN ConfigOutcome("ValueError", MsgNotSet,
                            [k \in 1..Len(missing) |-> missing[k].path], <<>>, NoValue)
         ELSE Let(EvalContext_evaluate(deepcopy(config_dict)), LAMBDA e :
                  ConfigOutcome(e.exc, e.msg, <<>>, e.ctx.hooks, e.val)))

----------------------------------------------------------------------------
(* The documents a source can hold *)

\* bound on the number of stages added to a builder
MaxStages == 2

\* the destination lists have the elements 1 .. ListLen
ListLen == 2

\* the integer keys of an overriding dict range over -(ListLen+Slack) .. ListLen+Slack-1,
\* so that Slack keys on either side are not indices of the list
Slack == 1

Priorities == {None, Some(WEAK), Some(FORCE)}

Vals == {1, 12}

foo == StrKey("foo")

fooo == StrKey("fooo")

bar == StrKey("bar")

Leaf(v) == ConfigScalar(v, NoFlags)

\* a document { key: node }, tagged !notnew when notnew
Doc(key, node, notnew) ==
    ConfigDict(<<Entry(key, node)>>, Flags(None, None, IF notnew THEN False ELSE None))

OneTwo == [i \in 1..ListLen |-> Leaf(i)]

\* { foo: 12 }, { foo: !weak 1 }, ...
ScalarDocs == {Doc(foo, ConfigScalar(v, Flags(p, None, None)), FALSE) : v \in Vals, p \in Priorities}

\* { foo: [1, 2] }, { foo: !force [1, 2] }, ...
ListDocs == {Doc(foo, ListNode("list", OneTwo, Flags(p, None, None)), FALSE) : p \in Priorities}

\* { foo: [11, !weak 12] } and { foo: [11, !force 12] }
MixedListDocs ==
    {Doc(foo, ListNode("list",
                       [i \in 1..ListLen |->
                           ConfigScalar(10 + i, Flags(IF i = ListLen THEN p ELSE None, None, None))],
                       NoFlags), FALSE) : p \in Priorities \ {None}}

\* { foo: { 1: 3 } } and the like: the way the command line spells foo[1]=3
IndexDocs ==
    {Doc(foo, ConfigDict(<<Entry(IntKey(k), Leaf(3))>>, NoFlags), n) :
        k \in -(ListLen + Slack)..(ListLen + Slack - 1), n \in BOOLEAN}

\* { fooo: 1 } and !notnew { fooo: 1 }
NewKeyDocs == {Doc(fooo, Leaf(1), n) : n \in BOOLEAN}

\* { foo: !append [3] }, { foo: !extend [3] }, { fooo: !append [3] }, ...
AppendDocs ==
    {Doc(k, ListNode(kind, <<Leaf(3)>>, NoFlags), n) :
        k \in {foo, fooo}, kind \in {"append", "extend"}, n \in BOOLEAN}

\* { foo: { bar: 1 } }, { foo: !del { bar: !weak 12 } }, { foo: !force { bar: 1 } }, ...
DictDocs ==
    {Doc(foo, ConfigDict(<<Entry(bar, ConfigScalar(v, Flags(p, None, None)))>>,
                         Flags(q, d, None)), FALSE) :
        v \in Vals, p \in Priorities, q \in Priorities, d \in {None, True}}

\* !notnew { foo: 1 }, !notnew { foo: [1, 2] }, !notnew { foo: { bar: 1 } } and
\* !notnew { foo: !del { bar: 1 } }
NotNewDocs ==
    {Doc(foo, Leaf(1), TRUE), Doc(foo, ListNode("list", OneTwo, NoFlags), TRUE)}
    \cup {Doc(foo, ConfigDict(<<Entry(bar, Leaf(1))>>, Flags(None, d, None)), TRUE) :
            d \in {None, True}}

Documents ==
    ScalarDocs \cup ListDocs \cup MixedListDocs \cup IndexDocs
    \cup NewKeyDocs \cup AppendDocs \cup DictDocs \cup NotNewDocs

----------------------------------------------------------------------------
(* The builder *)

VARIABLES
    stages,     \* Builder.stages
    pc,         \* where the builder is: "idle", "merging" (inside the loop of flatten),
                \* "done" (flatten returned), "error" (flatten raised)
    i,          \* the loop variable of flatten
    root,       \* the local variable root of flatten
    err,        \* the error flatten raised
    sources,    \* the documents in the order they were added
    dest,       \* root as it was before the latest merge
    src,        \* the stage merged in the latest merge
    cfg,        \* the tree handed to Config(...) or EvalContext.evaluate
    epc,        \* where that call is: "idle" (not made), "returned", "raised" or
                \* "running" (inside a loop that does not terminate)
    eret,       \* what the call returned or raised
    call,       \* the call made: "Config" or "evaluate" ("" before it)
    ectx,       \* the EvalContext as the call to evaluate left it
    tl,         \* the thread-local ConfigNode._default_safe.value (None while unset)
    scopes,     \* the values saved by the default_safe_flag scopes now open, innermost last
    made,       \* the latest operation on the safe flags and the tree it left
    keep,       \* the identities of the nodes whose own flags made them unsafe
    pres,       \* the latest NodePath or get_node call and its result
    given,      \* the raw value handed to a node constructor
    built,      \* the node the constructor returned
    builders,   \* the builders inside preprocess, the top-level one first, then the
                \* subbuilder of each include being preprocessed
    ppc,        \* where Builder.preprocess is: "idle", "running", "returned", "raised"
    perr,       \* the exception Builder.preprocess raised
    merged      \* the latest merge of two nodes: the nodes and the surviving node

bvars == <<stages, pc, i, root, err, sources, dest, src>>

evars == <<cfg, epc, eret, call, ectx>>

svars == <<tl, scopes, made, keep>>

pvars == <<pres>>

wvars == <<builders, ppc, perr>>

mvars == <<merged>>

xvars == <<given, built, wvars, mvars>>

vars == <<stages, pc, i, root, err, sources, dest, src, cfg, epc, eret, call, ectx,
                 tl, scopes, made, keep, pres, xvars>>

EmptyDict == ConfigDict(<<>>, NoFlags)

NoError == [exc |-> "", msg |-> "", epath |-> <<>>]

NoReturn == ConfigOutcome("", "", <<>>, <<>>, NoValue)

Error(o) == [exc |-> o.exc, msg |-> o.msg, epath |-> o.epath]

\* no operation on the safe flags yet
NoOp == [op |-> "", safe |-> None, at |-> <<>>, tree |-> EmptyDict]

\* no constructor call yet
NoRaw == [t |-> "none", id |-> 0, v |-> 0, items |-> <<>>]

\* before any constructor call
NotBuilt == [op |-> "", node |-> EmptyDict, nodes |-> <<>>, allow_duplicates |-> FALSE]

\* Builder(): no stages, no current stage; files are the files added, count[k]
\* is the number of times stage k went through the loop body of preprocess, old
\* the value saved by the current_stage scope now open
Builder_init ==
    [stages |-> <<>>, files |-> <<>>, count |-> <<>>, idx |-> 0, cur |-> None,
     old |-> None, state |-> "loop"]

\* no path call yet
NoCall == [op |-> "", arg |-> <<>>, res |-> <<>>, from |-> <<>>]

Init ==
    /\ stages = <<>>
    /\ pc = "idle"
    /\ i = 0
    /\ root = EmptyDict
    /\ err = NoError
    /\ sources = <<>>
    /\ dest = EmptyDict
    /\ src = EmptyDict
    /\ cfg = EmptyDict
    /\ epc = "idle"
    /\ eret = NoReturn
    /\ call = ""
    /\ ectx = EvalContext_init
    /\ tl = None
    /\ scopes = <<>>
    /\ made = NoOp
    /\ keep = {}
    /\ pres = NoCall
    /\ given = NoRaw
    /\ built = NotBuilt
    /\ builders = <<Builder_init>>
    /\ ppc = "idle"
    /\ perr = [exc |-> "", cause |-> ""]
    /\ merged = [op |-> "", self |-> EmptyDict, other |-> EmptyDict, ret |-> EmptyDict]

\* Builder.add_source for a source holding one document
add_source(doc) ==
    /\ pc = "idle"
    /\ stages' = Append(stages, doc)
    /\ sources' = Append(sources, doc)
    /\ UNCHANGED <<pc, i, root, err, dest, src, cfg, epc, eret, call, ectx,
                 tl, scopes, made, keep, pres, xvars>>

\* Builder.flatten up to the loop
flatten_begin ==
    /\ pc = "idle"
    /\ IF \E k \in 1..Len(stages) : ~isinstance_dict(stages[k])
       THEN /\ pc' = "error"
            /\ err' = [exc |-> "ValueError", msg |-> "Not all stages are dictionaries",
                       epath |-> <<>>]
            /\ UNCHANGED <<stages, root, i>>
       ELSE IF stages = <<>>
       THEN /\ pc' = "error"
            /\ err' = [exc |-> "IndexError", msg |-> "list index out of range", epath |-> <<>>]
            /\ UNCHANGED <<stages, root, i>>
       ELSE \E f \in {flatten_first(stages[1])} :
                /\ stages' = [stages EXCEPT ![1] = f.root]
                /\ root' = f.root
                /\ IF f.exc # "" THEN pc' = "error" /\ err' = Error(f) /\ i' = i
                   ELSE IF Len(stages) < 2 THEN pc' = "done" /\ err' = err /\ i' = i
                   ELSE pc' = "merging" /\ err' = err /\ i' = 1
    /\ UNCHANGED <<sources, dest, src, cfg, epc, eret, call, ectx,
                 tl, scopes, made, keep, pres, xvars>>

\* the loop of flatten started at index 0: it merges self.stages[i - 1]
flatten_merge_from_zero ==
    /\ pc = "merging"
    /\ i < Len(stages)
    /\ \E m \in {merge(root, stages[i])} :
           /\ dest' = root
           /\ src' = stages[i]
           /\ root' = m.root
           /\ IF m.exc # "" THEN pc' = "error" /\ err' = Error(m) /\ i' = i
              ELSE pc' = pc /\ err' = err /\ i' = i + 1
    /\ UNCHANGED <<stages, sources, cfg, epc, eret, call, ectx,
                 tl, scopes, made, keep, pres, xvars>>

\* one iteration of the loop of flatten: root = root.ayns.merge(self.stages[i])
flatten_merge ==
    /\ pc = "merging"
    /\ i < Len(stages)
    /\ \E m \in {merge(root, stages[i + 1])} :
           /\ dest' = root
           /\ src' = stages[i + 1]
           /\ root' = m.root
           /\ IF m.exc # "" THEN pc' = "error" /\ err' = Error(m) /\ i' = i
              ELSE pc' = pc /\ err' = err /\ i' = i + 1
    /\ UNCHANGED <<stages, sources, cfg, epc, eret, call, ectx,
                 tl, scopes, made, keep, pres, xvars>>

\* the end of flatten: self.stages = [root]
flatten_end ==
    /\ pc = "merging"
    /\ i = Len(stages)
    /\ stages' = <<root>>
    /\ pc' = "done"
    /\ UNCHANGED <<i, root, err, sources, dest, src, cfg, epc, eret, call, ectx,
                 tl, scopes, made, keep, pres, xvars>>

Next ==
    \/ \E doc \in Documents : Len(stages) < MaxStages /\ add_source(doc)
    \/ flatten_begin
    \/ flatten_merge
    \/ flatten_end

Spec == Init /\ [][Next]_vars

TypeOK ==
    /\ pc \in {"idle", "merging", "done", "error"}
    /\ Len(stages) <= MaxStages
    /\ (pc = "error") = (err.exc # "")

\* bound on the number of stages of the builders of SpecFold
FoldStages == 3

\* the documents of the builders of SpecFold
FoldDocs ==
    ScalarDocs \cup ListDocs \cup {Doc(fooo, Leaf(1), FALSE)}
    \cup {Doc(foo, ListNode(kind, <<Leaf(3)>>, NoFlags), FALSE) : kind \in {"append", "extend"}}
    \cup {Doc(foo, ConfigDict(<<Entry(bar, Leaf(1))>>, Flags(None, d, None)), FALSE) :
            d \in {None, True}}

NextFold ==
    \/ \E doc \in FoldDocs : Len(stages) < FoldStages /\ add_source(doc)
    \/ flatten_begin
    \/ flatten_merge
    \/ flatten_end

\* builders with up to FoldStages stages over fewer documents
SpecFold == Init /\ [][NextFold]_vars

----------------------------------------------------------------------------
(* Building a Config and evaluating a tree *)

\* the number of top-level keys of the evaluated trees
NKeys == 3

KeyNames == <<"a", "b", "c", "d", "e", "f">>

\* the j-th top-level key
Key(j) == StrKey(KeyNames[j])

x == StrKey("x")

\* the one node object that a tree may hold under several keys
Shared == Obj(EvalNode(5, <<>>, NoFlags), <<0>>)

\* the key after the j-th, the first after the last
NextKey(j) == Key((j % NKeys) + 1)

\* the key that the code of the !eval node under the j-th key reads: the first
\* reads the second, a key after it, and the others read the first, a key before
Dep(j) == Key(IF j = 1 THEN 2 ELSE 1)

\* the nodes a tree may hold under its j-th key: 42, !unsafe 7, !required, !eval
\* code (reading nothing, or the top-level name Dep(j)), !xref to a top-level key
\* or to x under the next key, and a dict, !bind or !call with one child x
Palette(j) ==
    LET id == <<j>>
        cid == <<j, 1>>
        nested == <<NextKey(j), x>>
    IN  {Obj(ConfigScalar(42, NoFlags), id), Obj(ConfigScalar(7, Unsafe), id),
         Obj(RequiredNode, id), Shared, Obj(XRefNode(nested, NoFlags), id),
         Obj(EvalNode(5, <<Dep(j)>>, NoFlags), id)}
        \cup {Obj(XRefNode(<<Key(t)>>, NoFlags), id) : t \in 1..NKeys}
        \cup {Obj(ConfigDict(<<Entry(x, child)>>, NoFlags), id) :
                child \in {Obj(ConfigScalar(42, NoFlags), cid), Obj(RequiredNode, cid),
                           Obj(XRefNode(nested, NoFlags), cid)}}
        \cup {Obj(FunctionNode("bind", <<Entry(x, child)>>, NoFlags), id) :
                child \in {Obj(ConfigScalar(7, Unsafe), cid),
                           Obj(XRefNode(<<Key(1)>>, NoFlags), cid)}}
        \cup {Obj(FunctionNode("call", <<Entry(x, Obj(ConfigScalar(42, NoFlags), cid))>>, NoFlags), id)}

RECURSIVE _entries(_)
\* the entries under the first j keys
_entries(j) ==
    IF j = 0 THEN {<<>>}
    ELSE {Append(es, Entry(Key(j), n)) : es \in _entries(j - 1), n \in Palette(j)}

\* { a: ..., b: ..., c: ... } with the j-th value from Palette(j)
EvalConfigs == {Obj(ConfigDict(es, NoFlags), <<>>) : es \in _entries(NKeys)}

\* pc of a call with the outcome o
_after(o) == IF o.exc = "" THEN "returned" ELSE IF o.exc = Diverges THEN "running" ELSE "raised"

\* Config(config_dict)
Config_new(config_dict) ==
    /\ epc = "idle"
    /\ cfg' = config_dict
    /\ call' = "Config"
    /\ \E o \in {Config_init(config_dict)} : eret' = o /\ epc' = _after(o)
    /\ UNCHANGED <<bvars, svars, pvars, xvars, ectx>>

\* EvalContext().evaluate(config_dict)
evaluate(config_dict) ==
    /\ epc = "idle"
    /\ cfg' = config_dict
    /\ call' = "evaluate"
    /\ \E o \in {EvalContext_evaluate(config_dict)} :
           /\ eret' = ConfigOutcome(o.exc, o.msg, <<>>, o.ctx.hooks, o.val)
           /\ epc' = _after(o)
           /\ ectx' = o.ctx
    /\ UNCHANGED <<bvars, svars, pvars, xvars>>

NextEval ==
    /\ epc = "idle"
    /\ \/ \E c \in EvalConfigs : Config_new(c)
       \/ \E c \in EvalConfigs : evaluate(c)

\* one tree built into a Config or evaluated by an EvalContext
SpecEval == Init /\ [][NextEval]_vars

----------------------------------------------------------------------------
(* Vocabulary of the properties *)

RECURSIVE native_value(_)
\* node.ayns.native_value: the plain value of a scalar, list or dict, without flags
native_value(n) ==
    [kind |-> IF isinstance_list(n) THEN "list" ELSE n.kind,
     value |-> n.value,
     items |-> {[name |-> n.children[k].name, val |-> native_value(n.children[k].node)] :
                    k \in 1..Len(n.children)}]

\* all nodes of a tree
NodesOf(t) ==
    LET seq == nodes_with_paths(t, <<>>, TRUE) IN {seq[k].node : k \in 1..Len(seq)}

\* the paths of all nodes of a tree, the root's empty path included
PathsOf(t) ==
    LET seq == nodes_with_paths(t, <<>>, TRUE) IN {seq[k].path : k \in 1..Len(seq)}

\* t holds a scalar leaf at path p
ScalarAt(t, p) == get_node(t, p) # None /\ get_node(t, p)[1].kind = "scalar"

\* no node above path p in t is an Append or Extend node (whose elements are not
\* merged at their own paths)
PlainPath(t, p) ==
    \A k \in 0..(Len(p) - 1) :
        get_node(t, SubSeq(p, 1, k)) # None
        => get_node(t, SubSeq(p, 1, k))[1].kind \notin {"append", "extend"}

RECURSIVE Lookup(_, _)
\* the node of t that the merge finds under path p, following get_child (so that
\* a negative index of a list names an element): None or Some(node)
Lookup(t, p) ==
    IF p = <<>> THEN Some(t)
    ELSE IF ~_is_composed(t) \/ get_child(t, Head(p)) = None THEN None
    ELSE Lookup(get_child(t, Head(p))[1], Tail(p))

\* the path of the parent
Parent(p) == SubSeq(p, 1, Len(p) - 1)

\* the paths at which the stage s holds a node that must not be new although the
\* destination d has nothing there
Offending(d, s) ==
    {p \in PathsOf(s) : /\ PlainPath(s, p)
                        /\ Lookup(d, p) = None
                        /\ ~allow_new(get_node(s, p)[1])}

\* the latest iteration of the loop of flatten merged src into dest and returned root
Merged == pc \in {"merging", "done"} /\ i >= 2

\* the latest iteration of the loop of flatten raised err, leaving the destination as root
MergeFailed == pc = "error" /\ i >= 1

\* C1: when both the destination and the merged stage hold a scalar leaf at a path
\* and the two leaves have equal priority, the merged tree holds the value of the
\* later one, the stage's, at that path; as the stages come in either order, the
\* same holds with the two stages swapped.
C1_LaterStageWins ==
    Merged =>
        \A p \in PathsOf(src) :
            (/\ ScalarAt(dest, p) /\ ScalarAt(src, p) /\ PlainPath(src, p)
             /\ priority(get_node(dest, p)[1]) = priority(get_node(src, p)[1]))
            => (ScalarAt(root, p) /\ get_node(root, p)[1].value = get_node(src, p)[1].value)

\* C1 witness: { foo: 12 } then { foo: 1 } gave { foo: 1 }
C1_Witness ==
    /\ pc = "done"
    /\ sources = <<Doc(foo, Leaf(12), FALSE), Doc(foo, Leaf(1), FALSE)>>
    /\ get_node(stages[1], <<foo>>)[1].value = 1

\* has_priority_over(a, b, if_equal) is if_equal for equal priorities and
\* a.priority > b.priority otherwise, for all nodes of the trees of a merge
HasPriorityOverSpec ==
    \A a \in NodesOf(dest) \cup NodesOf(src), b \in NodesOf(dest) \cup NodesOf(src),
       if_equal \in BOOLEAN :
        has_priority_over(a, b, if_equal)
            = IF priority(a) = priority(b) THEN if_equal ELSE priority(a) > priority(b)

\* C2: when the destination and the merged stage hold, at one path, nodes of
\* different priority of which at least one is a scalar leaf, the merged tree
\* holds at that path the content of the one with the higher priority, whichever
\* side it is on; and has_priority_over returns if_equal for equal priorities and
\* a.priority > b.priority otherwise.
C2_HigherPriorityWins ==
    /\ HasPriorityOverSpec
    /\ Merged =>
        \A p \in PathsOf(src) :
            (/\ get_node(dest, p) # None /\ PlainPath(src, p)
             /\ (ScalarAt(dest, p) \/ ScalarAt(src, p))
             /\ priority(get_node(dest, p)[1]) # priority(get_node(src, p)[1]))
            => /\ get_node(root, p) # None
               /\ native_value(get_node(root, p)[1])
                    = native_value(IF priority(get_node(dest, p)[1]) > priority(get_node(src, p)[1])
                                   THEN get_node(dest, p)[1] ELSE get_node(src, p)[1])

\* C2 witness: { foo: !force 12 } then { foo: 1 } gave { foo: 12 }
C2_Witness ==
    /\ pc = "done"
    /\ sources = <<Doc(foo, ConfigScalar(12, Flags(Some(FORCE), None, None)), FALSE),
                   Doc(foo, Leaf(1), FALSE)>>
    /\ get_node(stages[1], <<foo>>)[1].value = 12

RECURSIVE LeftFold(_, _)
\* merge(...merge(merge(S0, S1), S2)..., Sn-1) for the first n of the stages `docs`,
\* S0 having been through the premerge against no destination
LeftFold(docs, n) ==
    IF n = 1 THEN flatten_first(docs[1]).root
    ELSE merge(LeftFold(docs, n - 1), docs[n]).root

\* C3: flatten folds the stages from left to right: inside the loop the root is
\* the left fold of the stages merged so far, each stage having been merged
\* once and in list order, the stages still to come being untouched; and once
\* flatten has returned the stage list holds exactly one element, the left fold
\* of all stages.
C3_LeftFold ==
    /\ pc = "merging" =>
        /\ i \in 1..Len(sources)
        /\ root = LeftFold(sources, i)
        /\ i >= 2 => src = sources[i]
        /\ \A k \in (i + 1)..Len(sources) : stages[k] = sources[k]
    /\ pc = "done" =>
        /\ Len(stages) = 1
        /\ stages[1] = LeftFold(sources, Len(sources))
        /\ Len(sources) >= 2 => i = Len(sources) /\ src = sources[i]

\* C3 witness: flatten has returned for three stages whose left fold differs from
\* merge(S0, merge(S1, S2))
C3_Witness ==
    /\ pc = "done"
    /\ Len(sources) = FoldStages
    /\ stages[1] # merge(flatten_first(sources[1]).root,
                         merge(sources[2], sources[3]).root).root

\* C4, merging: a stage holding a node whose allow_new is false at a path the
\* destination does not have is never merged; the merge raises an error that
\* names a path at which the stage holds such a node and the current destination
\* (root, as the raising merge left it) holds nothing
C4_NotNew ==
    /\ Merged => Offending(dest, src) = {}
    /\ (MergeFailed /\ Offending(dest, src) # {}) => err.epath \in Offending(root, src)

\* C4, first stage: the destination being empty, flatten does not get past a first
\* stage holding a node whose allow_new is false, and the error names such a node
C4_FirstStage ==
    LET first == {p \in PathsOf(sources[1]) : ~allow_new(get_node(sources[1], p)[1])}
    IN  (sources # <<>> /\ first # {}) =>
            /\ pc \in {"idle", "error"}
            /\ pc = "error" => err.epath \in first

\* C4, allow_new true: a node at a new key of a destination dict (whose incoming
\* counterpart does not delete) is adopted with its content, and the keys of that
\* dict that the stage does not name keep their values
C4_Adopted ==
    Merged =>
        \A p \in PathsOf(src) :
            (/\ p # <<>> /\ PlainPath(src, p)
             /\ Lookup(dest, p) = None
             /\ Lookup(dest, Parent(p)) # None
             /\ isinstance_dict(Lookup(dest, Parent(p))[1])
             /\ ~delete(get_node(src, Parent(p))[1]))
            => /\ get_node(root, p) # None
               /\ native_value(get_node(root, p)[1]) = native_value(get_node(src, p)[1])
               /\ \A k \in 1..len(Lookup(dest, Parent(p))[1]) :
                    LET e == Lookup(dest, Parent(p))[1].children[k]
                    IN  ~has_child(get_node(src, Parent(p))[1], e.name)
                        => /\ get_node(root, Append(Parent(p), e.name)) # None
                           /\ native_value(get_node(root, Append(Parent(p), e.name))[1])
                                = native_value(e.node)

Outranks(d, s, q) ==
    priority(get_node(d, q)[1]) > priority(get_first_not_missing_node(s, q))

\* C5: merging a composed node s whose delete is effective into a composed
\* destination node d at the same path p replaces the subtree of d: a scalar
\* descendant of d that does not outrank the corresponding incoming node is
\* removed (under a dict its key is gone or holds the incoming content), one that
\* does outrank it stays, and when no descendant outranks its incoming node the
\* result at p is exactly the content of s.
C5_DeleteReplaces ==
    Merged =>
        \A p \in PathsOf(src) :
            (/\ PlainPath(src, p)
             /\ get_node(src, p)[1].kind \in {"dict", "list"} /\ delete(get_node(src, p)[1])
             /\ get_node(dest, p) # None /\ _is_composed(get_node(dest, p)[1]))
            => LET s == get_node(src, p)[1]
                   d == get_node(dest, p)[1]
                   below == PathsOf(d) \ {<<>>}
               IN  /\ \A q \in below :
                        (ScalarAt(d, q) /\ isinstance_dict(get_node(d, Parent(q))[1]))
                        => IF Outranks(d, s, q)
                           THEN /\ ScalarAt(root, p \o q)
                                /\ get_node(root, p \o q)[1].value = get_node(d, q)[1].value
                           ELSE \/ get_node(root, p \o q) = None
                                \/ /\ get_node(s, q) # None
                                   /\ native_value(get_node(root, p \o q)[1])
                                        = native_value(get_node(s, q)[1])
                   /\ (\A q \in below : ~Outranks(d, s, q))
                        => /\ get_node(root, p) # None
                           /\ native_value(get_node(root, p)[1]) = native_value(s)

\* C5 witness: { foo: { bar: 1 } } then { foo: !del { bar: 12 } } gave { foo: { bar: 12 } }
C5_Witness ==
    /\ pc = "done"
    /\ sources = <<Doc(foo, ConfigDict(<<Entry(bar, Leaf(1))>>, NoFlags), FALSE),
                   Doc(foo, ConfigDict(<<Entry(bar, Leaf(12))>>, Flags(None, True, None)), FALSE)>>
    /\ native_value(stages[1]) = native_value(sources[2])

\* the position (from 1) in a list of length n that the index k names
Position(k, n) == IF k < 0 THEN n + k + 1 ELSE k + 1

\* the latest merge put a dict of src, whose keys are all indices of the list, on a
\* list of dest at path p
DictOnList(p) ==
    /\ Merged /\ PlainPath(src, p)
    /\ isinstance_dict(get_node(src, p)[1]) /\ ~delete(get_node(src, p)[1])
    /\ len(get_node(src, p)[1]) > 0
    /\ get_node(dest, p) # None /\ get_node(dest, p)[1].kind = "list"
    /\ \A e \in 1..len(get_node(src, p)[1]) :
            LET k == get_node(src, p)[1].children[e].name
            IN  k.isint /\ -len(get_node(dest, p)[1]) <= k.i /\ k.i < len(get_node(dest, p)[1])

\* what C6 says about the elements of the list: those named by a key of the dict
\* hold the dict's value (unless `ranked` and the element outranks the value),
\* all others are unchanged, and the length is kept
IndexOverride(p, ranked) ==
    LET s == get_node(src, p)[1]
        d == get_node(dest, p)[1]
        r == get_node(root, p)
    IN  /\ r # None /\ r[1].kind = "list" /\ len(r[1]) = len(d)
        /\ \A j \in 1..len(d) :
              LET named == {e \in 1..len(s) : Position(s.children[e].name.i, len(d)) = j}
                  wins == {e \in named : ~(ranked /\ priority(d.children[j].node)
                                                      > priority(s.children[e].node))}
              IN  IF wins # {}
                  THEN \E e \in wins : native_value(r[1].children[j].node)
                                          = native_value(s.children[e].node)
                  ELSE native_value(r[1].children[j].node) = native_value(d.children[j].node)

DictOffList(p) ==
    /\ PlainPath(src, p)
    /\ isinstance_dict(get_node(src, p)[1])
    /\ get_node(dest, p) # None /\ get_node(dest, p)[1].kind = "list"
    /\ \E e \in 1..len(get_node(src, p)[1]) :
            LET k == get_node(src, p)[1].children[e].name
            IN  k.isint /\ (k.i >= len(get_node(dest, p)[1]) \/ k.i < -len(get_node(dest, p)[1]))

\* C7: merging a dict with a key that is no index of the destination list (index >=
\* length or < -length) never succeeds, whether or not the stage allows new paths:
\* it raises an error naming such a key and leaves the list as it was.
C7_OutOfRange ==
    \A p \in PathsOf(src) :
        /\ Merged => ~DictOffList(p)
        /\ (MergeFailed /\ DictOffList(p))
            => /\ get_node(root, p) = get_node(dest, p)
               /\ \E e \in 1..len(get_node(src, p)[1]) :
                    err.epath = Append(p, get_node(src, p)[1].children[e].name)

\* C7 witness: { foo: [1, 2] } then !notnew { foo: { 2: 3 } } raised an error naming
\* foo[2] and left the list as it was
C7_Witness ==
    /\ pc = "error"
    /\ sources = <<Doc(foo, ListNode("list", OneTwo, NoFlags), FALSE),
                   Doc(foo, ConfigDict(<<Entry(IntKey(ListLen), Leaf(3))>>, NoFlags), TRUE)>>
    /\ err.epath = <<foo, IntKey(ListLen)>>
    /\ root = sources[1]

\* the values of the elements of a list node, in order
Values(n) == [k \in 1..len(n) |-> native_value(n.children[k].node)]

\* the latest iteration of the loop of flatten had an Append node of src at path p
\* where dest holds a list
AppendOnList(p) ==
    /\ (Merged \/ MergeFailed)
    /\ PlainPath(src, p) /\ get_node(src, p)[1].kind = "append"
    /\ get_node(dest, p) # None /\ isinstance_list(get_node(dest, p)[1])

\* C8: merging a stage that holds an Append node with elements E at path p into a
\* destination that holds a list L at p succeeds and yields, at p, the list L
\* followed by the elements of E in order, of length |L| + |E|.
C8_AppendConcat ==
    \A p \in PathsOf(src) :
        AppendOnList(p) =>
            /\ Merged
            /\ get_node(root, p) # None /\ isinstance_list(get_node(root, p)[1])
            /\ len(get_node(root, p)[1]) = len(get_node(dest, p)[1]) + len(get_node(src, p)[1])
            /\ Values(get_node(root, p)[1])
                 = Values(get_node(dest, p)[1]) \o Values(get_node(src, p)[1])

\* C8 witness: { foo: [1, 2] } then { foo: !append [3] } gave { foo: [1, 2, 3] }
C8_Witness ==
    /\ pc = "done"
    /\ sources = <<Doc(foo, ListNode("list", OneTwo, NoFlags), FALSE),
                   Doc(foo, ListNode("append", <<Leaf(3)>>, NoFlags), FALSE)>>
    /\ Values(get_node(stages[1], <<foo>>)[1]) = Values(ListNode("list", OneTwo, NoFlags)) \o <<native_value(Leaf(3))>>

\* the nodes of kind `kind` that the tree t holds where the merge applies their hook
HooksOf(t, kind) ==
    {p \in PathsOf(t) : PlainPath(t, p) /\ get_node(t, p)[1].kind = kind}

\* C9: whenever nothing exists at the path of an Append node in what was merged
\* before it, the premerge raises the error 'does not exist in the previous
\* context' at that path: both when the destination lacks the path and when the
\* Append node is in the first stage, which has no destination at all.
C9_AppendMissing ==
    /\ \A p \in HooksOf(src, "append") :
            ((Merged \/ MergeFailed) /\ get_node(dest, p) = None)
            => /\ MergeFailed
               /\ err.exc = "PremergeError" /\ err.msg = MsgNotExist /\ err.epath = p
    /\ (sources # <<>> /\ pc # "idle")
        => \A p \in HooksOf(sources[1], "append") :
               /\ pc = "error" /\ i = 0
               /\ err.msg = MsgNotExist /\ err.epath = p

\* C9 witness: { fooo: 1 } then { foo: !append [3] } raised the error at foo and
\* left the destination as it was
C9_Witness ==
    /\ pc = "error"
    /\ sources = <<Doc(fooo, Leaf(1), FALSE),
                   Doc(foo, ListNode("append", <<Leaf(3)>>, NoFlags), FALSE)>>
    /\ err.exc = "PremergeError" /\ err.msg = MsgNotExist /\ err.epath = <<foo>>
    /\ root = dest

\* what an Extend node n at path p turns into before a destination `into` (None
\* for the first stage): no error; on a list, the outcome of an Append node,
\* which is that list followed by the elements of n; otherwise a plain list of
\* the elements of n, `into` being as it was
Tolerant(n, p, into) ==
    LET o == on_premerge(n, p, into)
        t == IF into = None THEN None ELSE get_node(into[1], p)
    IN  /\ o.exc = ""
        /\ IF t # None /\ isinstance_list(t[1])
           THEN /\ o = AppendNode_on_premerge_impl(n, p, into)
                /\ Values(o.node) = Values(t[1]) \o Values(n)
                /\ get_node(o.into[1], p) = None
           ELSE /\ o.node.kind = "list"
                /\ Values(o.node) = Values(n)
                /\ o.into = into

\* C10: the premerge of an Extend node never fails because of its target: when the
\* destination has no node at its path, or a node that is not a list, the Extend
\* node becomes a plain list of its own elements and the destination is left
\* unchanged; when the target is a list the outcome is that of an Append node.
C10_ExtendTolerant ==
    /\ (Merged \/ MergeFailed)
        => \A p \in HooksOf(src, "extend") :
               /\ Tolerant(get_node(src, p)[1], p, Some(dest))
               /\ err.exc # "PremergeError"
    /\ (sources # <<>> /\ pc # "idle")
        => \A p \in HooksOf(sources[1], "extend") :
               /\ Tolerant(get_node(sources[1], p)[1], p, None)
               /\ i = 0 => err.exc # "PremergeError"
               /\ (i = 0 /\ pc # "error")
                    => /\ get_node(root, p)[1].kind = "list"
                       /\ Values(get_node(root, p)[1]) = Values(get_node(sources[1], p)[1])

\* C10 witness: { foo: 12 } then { foo: !extend [3] } gave { foo: [3] }
C10_Witness ==
    /\ pc = "done"
    /\ sources = <<Doc(foo, Leaf(12), FALSE),
                   Doc(foo, ListNode("extend", <<Leaf(3)>>, NoFlags), FALSE)>>
    /\ get_node(stages[1], <<foo>>)[1].kind = "list"
    /\ Values(get_node(stages[1], <<foo>>)[1]) = <<native_value(Leaf(3))>>

----------------------------------------------------------------------------
(* Properties of Config and of the evaluation *)

\* the paths at which the tree t holds a RequiredNode
RequiredPaths(t) == {p \in PathsOf(t) : get_node(t, p)[1].kind = "required"}

\* the elements of a sequence
Range(seq) == {seq[k] : k \in 1..Len(seq)}

\* C11: Config(tree) for a tree that still holds !required placeholders raises one
\* ValueError ("The following required nodes have not been set") that lists the
\* path of every placeholder of the tree, each once, and no node has been
\* evaluated (no on_evaluate hook has run) when it is raised.
C11_RequiredListed ==
    (call = "Config" /\ RequiredPaths(cfg) # {})
        => /\ epc = "raised"
           /\ eret.exc = "ValueError"
           /\ eret.msg = MsgNotSet
           /\ Range(eret.missing) = RequiredPaths(cfg)
           /\ Len(eret.missing) = Cardinality(RequiredPaths(cfg))
           /\ eret.hooks = <<>>

\* C11 witness: a Config was built from a tree with a placeholder at the top level
\* and another one inside a dict, next to an !eval node, and the error lists both
C11_Witness ==
    /\ call = "Config"
    /\ epc = "raised"
    /\ \E p, q \in RequiredPaths(cfg) : Len(p) = 1 /\ Len(q) = 2
    /\ \E p \in PathsOf(cfg) : get_node(cfg, p)[1].kind = "eval"
    /\ Range(eret.missing) = RequiredPaths(cfg)

RECURSIVE ValueAt(_, _)
\* the evaluated value at path p of the evaluated value v: None or Some(value)
ValueAt(v, p) ==
    IF p = <<>> THEN Some(v)
    ELSE IF \E k \in 1..Len(v.items) : v.items[k].name = Head(p)
    THEN ValueAt(v.items[CHOOSE k \in 1..Len(v.items) : v.items[k].name = Head(p)].val, Tail(p))
    ELSE None

RECURSIVE Terminal(_, _, _)
\* the path of the node that is not a reference at the end of the chain of
\* references starting at path p of the tree t, followed for at most n steps:
\* None when the chain leaves the tree or does not end
Terminal(t, p, n) ==
    IF get_node(t, p) = None THEN None
    ELSE IF get_node(t, p)[1].kind # "xref" THEN Some(p)
    ELSE IF n = 0 THEN None
    ELSE Terminal(t, get_node(t, p)[1].ref, n - 1)

\* the paths of the !xref nodes of t whose chain ends in a scalar leaf
ChainsToScalar(t) ==
    {p \in PathsOf(t) :
        /\ get_node(t, p)[1].kind = "xref"
        /\ Terminal(t, p, Cardinality(PathsOf(t))) # None
        /\ get_node(t, Terminal(t, p, Cardinality(PathsOf(t)))[1])[1].kind = "scalar"}

\* C12: when a tree has been evaluated, every reference whose chain of references
\* ends in a scalar leaf (a.x -> b.x -> c.x = 42) evaluates to the value of that
\* leaf, as does every reference on the way, and the on_evaluate hook of the leaf
\* has run exactly once in the evaluation.
C12_ChainResolved ==
    (call # "" /\ epc = "returned")
        => \A p \in ChainsToScalar(cfg) :
              LET q == Terminal(cfg, p, Cardinality(PathsOf(cfg)))[1]
                  leaf == get_node(cfg, q)[1]
              IN  /\ ValueAt(eret.val, p) = Some(IntValue(leaf.value))
                  /\ ValueAt(eret.val, q) = Some(IntValue(leaf.value))
                  /\ leaf.oid \in DOMAIN eret.hooks
                  /\ eret.hooks[leaf.oid] = 1

\* C12 witness: a.x refers to b.x, b.x refers to c.x, c.x is 42, and the evaluated
\* tree holds 42 at a.x and at b.x
C12_Witness ==
    /\ call = "evaluate"
    /\ epc = "returned"
    /\ get_node(cfg, <<Key(1), x>>) = Some(Obj(XRefNode(<<Key(2), x>>, NoFlags), <<1, 1>>))
    /\ get_node(cfg, <<Key(2), x>>) = Some(Obj(XRefNode(<<Key(3), x>>, NoFlags), <<2, 1>>))
    /\ get_node(cfg, <<Key(3), x>>)[1].kind = "scalar"
    /\ ValueAt(eret.val, <<Key(1), x>>) = Some(IntValue(42))
    /\ ValueAt(eret.val, <<Key(2), x>>) = Some(IntValue(42))

RECURSIVE Revisits(_, _, _)
\* the chain of references starting at path p of the tree t comes back to a
\* reference it has passed (seen: the paths passed so far)
Revisits(t, p, seen) ==
    /\ get_node(t, p) # None
    /\ get_node(t, p)[1].kind = "xref"
    /\ \/ p \in seen
       \/ Revisits(t, get_node(t, p)[1].ref, seen \cup {p})

\* the paths of the references of t whose chain is cyclic
CyclicRefs(t) == {p \in PathsOf(t) : Revisits(t, p, {})}

\* C13: the evaluation of a tree that holds a reference whose chain of references
\* returns to a reference already on the chain (two references pointing at each
\* other, a reference to its own path) ends, and ends with an error: it is never
\* left running.
C13_CycleRaises ==
    (call # "" /\ CyclicRefs(cfg) # {}) => epc = "raised"

\* C13 witness: a tree whose first key holds a reference to its own path, with
\* nothing else that could fail, was handed to EvalContext.evaluate
C13_Witness ==
    /\ call = "evaluate"
    /\ get_node(cfg, <<Key(1)>>) = Some(Obj(XRefNode(<<Key(1)>>, NoFlags), <<1>>))
    /\ \A p \in PathsOf(cfg) : get_node(cfg, p)[1].kind \in {"dict", "scalar", "xref"}
    /\ \A p \in PathsOf(cfg) : safe(get_node(cfg, p)[1])
    /\ CyclicRefs(cfg) = {<<Key(1)>>}

\* the paths at which the tree t holds the object with identity o
PathsToObj(t, o) == {p \in PathsOf(t) : get_node(t, p)[1].oid = o}

\* the paths of t that are reached as a dependency: the end of the chain of a
\* reference, or a top-level name read by the code of an !eval node
DependedOn(t) ==
    {q \in PathsOf(t) :
        \E p \in PathsOf(t) :
            \/ /\ get_node(t, p)[1].kind = "xref"
               /\ Terminal(t, p, Cardinality(PathsOf(t))) = Some(q)
            \/ /\ get_node(t, p)[1].kind = "eval"
               /\ \E k \in 1..Len(get_node(t, p)[1].uses) : q = <<get_node(t, p)[1].uses[k]>>}

\* C14: in an evaluation that returns, a node object that sits at two or more
\* paths of the tree, or that is evaluated as a dependency (the end of a chain of
\* references, a name read by inline code) as well as by the traversal, has had
\* its on_evaluate hook run exactly once, and every path that reaches it holds the
\* same evaluated value.
C14_HookOnce ==
    (call # "" /\ epc = "returned")
        => /\ \A p \in PathsOf(cfg) :
                 (Cardinality(PathsToObj(cfg, get_node(cfg, p)[1].oid)) > 1 \/ p \in DependedOn(cfg))
                    => /\ get_node(cfg, p)[1].oid \in DOMAIN eret.hooks
                       /\ eret.hooks[get_node(cfg, p)[1].oid] = 1
           /\ \A p, q \in PathsOf(cfg) :
                 get_node(cfg, p)[1].oid = get_node(cfg, q)[1].oid
                    => ValueAt(eret.val, p) = ValueAt(eret.val, q)
           /\ \A p \in PathsOf(cfg) :
                 (get_node(cfg, p)[1].kind = "xref" /\ Terminal(cfg, p, Cardinality(PathsOf(cfg))) # None)
                    => ValueAt(eret.val, p)
                         = ValueAt(eret.val, Terminal(cfg, p, Cardinality(PathsOf(cfg)))[1])

\* C14 witness: the code under the first key reads the second key, the second and
\* the third key hold the same !eval object; the evaluation returned and that
\* object's hook ran once
C14_Witness ==
    /\ call = "evaluate"
    /\ epc = "returned"
    /\ get_node(cfg, <<Key(1)>>)[1].kind = "eval"
    /\ get_node(cfg, <<Key(1)>>)[1].uses = <<Key(2)>>
    /\ PathsToObj(cfg, Shared.oid) = {<<Key(2)>>, <<Key(3)>>}
    /\ eret.hooks[Shared.oid] = 1
    /\ ValueAt(eret.val, <<Key(2)>>) = ValueAt(eret.val, <<Key(3)>>)

\* p is a proper prefix of q
Above(p, q) == Len(p) < Len(q) /\ SubSeq(q, 1, Len(p)) = p

\* the paths of t that the evaluation of the nodes at the paths P touches directly:
\* the nodes below them, the end of the chain of a reference among them, the names
\* read by the code of an !eval node among them
Touched(t, P) ==
    {q \in PathsOf(t) :
        \E p \in P :
            \/ Above(p, q)
            \/ /\ get_node(t, p)[1].kind = "xref"
               /\ Terminal(t, p, Cardinality(PathsOf(t))) = Some(q)
            \/ /\ get_node(t, p)[1].kind = "eval"
               /\ \E k \in 1..Len(get_node(t, p)[1].uses) : q = <<get_node(t, p)[1].uses[k]>>}

RECURSIVE Closure(_, _, _)
\* the paths touched from P in at most n steps
Closure(t, P, n) == IF n = 0 THEN P ELSE Closure(t, P \cup Touched(t, P), n - 1)

\* the dependencies of the !bind, !call or !eval node at path p of t: all that its
\* evaluation touches, the node itself left out
Dependencies(t, p) == Closure(t, Touched(t, {p}), Cardinality(PathsOf(t))) \ {p}

\* the paths of the !bind, !call and !eval nodes of t with a dependency that is
\* not safe
WithUnsafeDependency(t) ==
    {p \in PathsOf(t) :
        /\ get_node(t, p)[1].kind \in FunctionKinds \cup {"eval"}
        /\ \E q \in Dependencies(t, p) : ~safe(get_node(t, q)[1])}

\* C15: the evaluation of a tree in which a !bind, !call or !eval node has a
\* dependency whose effective safe flag is false never produces a value, whether
\* the dependency comes before or after the node in the tree (is already
\* evaluated and cached when the node needs it, or is evaluated on demand).
C15_UnsafeDependencyFails ==
    (call # "" /\ WithUnsafeDependency(cfg) # {}) => epc # "returned"

\* C15 witness: the code under the first key reads the second key, which holds
\* an unsafe value and is evaluated on demand inside the scope: the evaluation
\* fails with the error of the scope
C15_Witness ==
    /\ call = "evaluate"
    /\ get_node(cfg, <<Key(1)>>) = Some(Obj(EvalNode(5, <<Key(2)>>, NoFlags), <<1>>))
    /\ get_node(cfg, <<Key(2)>>) = Some(Obj(ConfigScalar(7, Unsafe), <<2>>))
    /\ <<Key(1)>> \in WithUnsafeDependency(cfg)
    /\ epc = "raised"
    /\ eret.exc = "EvalError"
    /\ eret.msg = MsgDependency

----------------------------------------------------------------------------
(* The default safe flag: scopes, sources and included documents *)

\* bound on the number of default_safe_flag scopes open at once
MaxScopes == 2

\* Builder._default_safe_flag
_default_safe_flag == TRUE

\* ConfigNode.default_safe_flag(value) overwriting the default: the value of an
\* enclosing scope is ignored
default_safe_flag_overwrite(cur, value) ==
    Let(notnone_or(cur, True), LAMBDA old :
        [requested |-> value, value |-> Some(value), old |-> old])

\* ConfigNode.default_safe_flag(value) up to its yield, cur being the thread-local
\* value (None while unset): the value set and the one saved for the exit
default_safe_flag(cur, value) ==
    Let(notnone_or(cur, True), LAMBDA old :
        [requested |-> value, value |-> Some(value /\ old[1]), old |-> old])

RECURSIVE parse(_, _)
\* yaml.parse(source) while the thread-local default is cur: the nodes of the
\* document, the flags written in it kept, each constructed by ConfigNode.__init__,
\* which stores getattr(ConfigNode._default_safe, 'value', False)
parse(source, cur) ==
    [source EXCEPT
        !._default_safe = notnone_or(cur, False),
        !.children = [j \in 1..Len(source.children) |->
                        Entry(source.children[j].name, parse(source.children[j].node, cur))]]

\* the try block of Builder.add_source(source, safe=safe_arg): the stage appended
\* and the thread-local value left behind
_add_source(source, safe_arg, cur) ==
    Let(default_safe_flag(cur, notnone_or(safe_arg, Some(_default_safe_flag))[1]
                               /\ _default_safe_flag), LAMBDA s :
        [stage |-> parse(source, s.value), tl |-> s.old])

\* IncludeNode(filename, **flags)
IncludeNode(filename, flags) == [ConfigScalar(filename, flags) EXCEPT !.kind = "include"]

\* StreamNode(builder) for a subbuilder with one stage, constructed while the
\* thread-local default is cur: a list of the stages with delete=False
StreamNode(stage, cur) ==
    [ListNode("list", <<stage>>, Flags(None, False, None)) EXCEPT
        !._default_safe = notnone_or(cur, False)]

kk == StrKey("k")

cc == StrKey("c")

SafeFlags == {[NoFlags EXCEPT !.safe = s] : s \in {None, True, False}}

\* documents without includes: { a: 1 }, { a: !unsafe 1 }, { a: { c: 1 } } with
\* every combination of !unsafe and !metadata:{safe: true} on the nodes
PlainSources ==
    {ConfigDict(<<Entry(x, ConfigScalar(1, f))>>, g) : f \in SafeFlags, g \in SafeFlags}
    \cup {ConfigDict(<<Entry(x, ConfigDict(<<Entry(cc, ConfigScalar(1, f))>>, g))>>, NoFlags) :
            f \in SafeFlags, g \in SafeFlags}

\* the files an include can name: the first one written as safe throughout, the
\* second one with an !unsafe leaf under a node written as safe
Files ==
    <<ConfigDict(<<Entry(x, ConfigScalar(1, [NoFlags EXCEPT !.safe = True]))>>,
                 [NoFlags EXCEPT !.safe = True]),
      ConfigDict(<<Entry(x, ConfigDict(<<Entry(cc, ConfigScalar(1, Unsafe))>>,
                                       [NoFlags EXCEPT !.safe = True]))>>, NoFlags)>>

\* documents { k: !include file }, the include and the document tagged in every way
IncludeSources ==
    {ConfigDict(<<Entry(kk, IncludeNode(file, f))>>, g) :
        file \in DOMAIN Files, f \in SafeFlags, g \in SafeFlags}

\* with ConfigNode.default_safe_flag(value): the scope is entered
default_safe_flag_enter(value) ==
    /\ Len(scopes) < MaxScopes
    /\ \E s \in {default_safe_flag(tl, value)} :
           /\ tl' = s.value
           /\ scopes' = Append(scopes, s)
    /\ UNCHANGED <<bvars, evars, pvars, xvars, made, keep>>

\* the finally clause of default_safe_flag: the innermost scope is left
default_safe_flag_exit ==
    /\ scopes # <<>>
    /\ tl' = scopes[Len(scopes)].old
    /\ scopes' = SubSeq(scopes, 1, Len(scopes) - 1)
    /\ UNCHANGED <<bvars, evars, pvars, xvars, made, keep>>

\* Builder().add_source(source, safe=safe_arg)
Builder_add_source(source, safe_arg) ==
    /\ \E r \in {_add_source(source, safe_arg, tl)} :
           /\ made' = [op |-> "add_source", safe |-> safe_arg, at |-> <<>>, tree |-> r.stage]
           /\ tl' = r.tl
    /\ UNCHANGED <<bvars, evars, pvars, xvars, scopes, keep>>

\* Builder.preprocess of the stage added last, which holds an include under k:
\* IncludeNode.on_preprocess_impl adds the file to a subbuilder with
\* safe=self.ayns.safe and returns the StreamNode of the subbuilder, which
\* map_nodes sets in the place of the include
preprocess ==
    /\ made.op = "add_source"
    /\ get_child(made.tree, kk) # None
    /\ get_child(made.tree, kk)[1].kind = "include"
    /\ \E inc \in {get_child(made.tree, kk)[1]} :
       \E r \in {_add_source(Files[inc.value], Some(safe(inc)), tl)} :
           /\ made' = [op |-> "include", safe |-> Some(safe(inc)), at |-> <<kk, IntKey(0)>>,
                       tree |-> set_child(made.tree, kk, StreamNode(r.stage, r.tl)).self]
           /\ tl' = r.tl
    /\ UNCHANGED <<bvars, evars, pvars, xvars, scopes, keep>>

NextSafe ==
    \/ \E value \in BOOLEAN : default_safe_flag_enter(value)
    \/ default_safe_flag_exit
    \/ \E source \in PlainSources \cup IncludeSources, safe_arg \in {None, True, False} :
           Builder_add_source(source, safe_arg)
    \/ preprocess

\* sources added and preprocessed inside and outside default_safe_flag scopes
SpecSafe == Init /\ [][NextSafe]_vars

\* every node of the tree t is unsafe
AllUnsafe(t) == \A n \in NodesOf(t) : ~safe(n)

\* the latest source was added with safe=False
UnsafeSource == made.op = "add_source" /\ made.safe = False

\* the latest document was pulled in by an unsafe include
UnsafeInclude == made.op = "include" /\ made.safe = False

\* a default_safe_flag scope is open that asked for an unsafe default or was
\* entered while the default was unsafe
InUnsafeScope == \E k \in 1..Len(scopes) : ~scopes[k].requested \/ scopes[k].old = False

\* C16: every node parsed from a source added with safe=False is unsafe, and so is
\* every node of a document pulled in by an unsafe Include node, whatever flags the
\* source writes on its nodes; while an unsafe default_safe_flag scope is open the
\* default stays unsafe, also inside a nested default_safe_flag(True)
C16_UnsafeSourceStaysUnsafe ==
    /\ UnsafeSource => AllUnsafe(made.tree)
    /\ UnsafeInclude => AllUnsafe(get_node(made.tree, made.at)[1])
    /\ InUnsafeScope => tl = False

\* a document with a node written as safe pulled in by an unsafe include, inside a
\* default_safe_flag(True) scope nested in a default_safe_flag(False) scope
C16_Witness ==
    /\ UnsafeInclude
    /\ \E n \in NodesOf(get_node(made.tree, made.at)[1]) : n._safe = True
    /\ Len(scopes) = 2 /\ ~scopes[1].requested /\ scopes[2].requested

----------------------------------------------------------------------------
(* Safe flags under wrapping, set_child and propagation *)

\* bound on the height of the trees built by wrapping and attaching
MaxHeight == 2

RECURSIVE Height(_)
\* the number of levels of composed nodes in a tree
Height(t) ==
    IF ~_is_composed(t) THEN 0
    ELSE 1 + (CHOOSE h \in 0..MaxHeight + 1 :
                /\ \A j \in 1..len(t) : Height(t.children[j].node) <= h
                /\ h = 0 \/ \E j \in 1..len(t) : Height(t.children[j].node) = h)

yy == StrKey("y")

\* the nodes a tree is started from: 1, !unsafe 1, { x: 1 }, !unsafe { x: 1 },
\* { x: !unsafe 1 }, ... as the Python API constructs them
FirstNodes ==
    {Obj(ConfigScalar(1, f), <<0>>) : f \in SafeFlags}
    \cup {Obj(ConfigDict(<<Entry(x, Obj(ConfigScalar(1, f), <<0, 1>>))>>, g), <<0>>) :
            f \in SafeFlags, g \in SafeFlags}

\* the parents a tree is attached under, at height h: { } and { y: 2 } constructed
\* with safe None, True or False, on their own or as the child of a node that
\* handed them implicit_safe imp
Parents(h) ==
    {Obj(ConfigNodeMeta_call(ConfigDict(es, g),
                             [_get_child_kwargs(EmptyDict) EXCEPT !.implicit_safe = imp]), <<h>>) :
        es \in {<<>>, <<Entry(yy, Obj(ConfigScalar(2, NoFlags), <<h, 1>>))>>},
        g \in SafeFlags, imp \in {None, True, False}}

\* the identities of the nodes of t whose explicit or inherited safe flag is False
OwnUnsafe(t) == {n.oid : n \in {m \in NodesOf(t) : m._safe = False \/ m._implicit_safe = False}}

\* a node is constructed
ConfigNode_new(n) ==
    /\ made.op = ""
    /\ made' = [op |-> "new", safe |-> None, at |-> <<>>, tree |-> n]
    /\ keep' = OwnUnsafe(n)
    /\ UNCHANGED <<bvars, evars, pvars, xvars, tl, scopes>>

\* ConfigDict({name: tree}, safe=...) / ConfigList([tree], safe=...): the constructor
\* of a composed node wraps the tree with ConfigNode(tree, **kwargs)
wrap(kind, flags) ==
    /\ made.op # ""
    /\ Height(made.tree) < MaxHeight
    /\ \E t \in {Obj(ComposedNode_init(kind, <<Entry(IF kind = "list" THEN IntKey(0) ELSE x,
                                                     made.tree)>>, flags),
                     <<Height(made.tree) + 1>>)} :
           /\ made' = [made EXCEPT !.op = "wrap", !.tree = t]
           /\ keep' = keep \cup OwnUnsafe(t)
    /\ UNCHANGED <<bvars, evars, pvars, xvars, tl, scopes>>

\* parent.ayns.set_child(x, tree) for an existing parent
attach(parent) ==
    /\ made.op # ""
    /\ Height(made.tree) < MaxHeight
    /\ \E r \in {set_child(parent, x, made.tree)} :
           /\ r.exc = ""
           /\ made' = [made EXCEPT !.op = "set_child", !.tree = r.self]
           /\ keep' = keep \cup OwnUnsafe(r.self)
    /\ UNCHANGED <<bvars, evars, pvars, xvars, tl, scopes>>

\* ConfigNode(tree, **kwargs) with the keywords a parent hands down: the implicit
\* flags of the root are changed and propagated
rewrap(kwargs) ==
    /\ made.op # ""
    /\ \E t \in {ConfigNodeMeta_call(made.tree, kwargs)} :
           /\ made' = [made EXCEPT !.op = "rewrap", !.tree = t]
           /\ keep' = keep \cup OwnUnsafe(t)
    /\ UNCHANGED <<bvars, evars, pvars, xvars, tl, scopes>>

\* tree._propagate_implicit_values()
propagate ==
    /\ made.op # ""
    /\ \E t \in {_propagate_implicit_values(made.tree)} :
           /\ made' = [made EXCEPT !.op = "propagate", !.tree = t]
           /\ keep' = keep \cup OwnUnsafe(t)
    /\ UNCHANGED <<bvars, evars, pvars, xvars, tl, scopes>>

NextFlags ==
    \/ \E n \in FirstNodes : ConfigNode_new(n)
    \/ \E kind \in {"dict", "list"}, flags \in SafeFlags : wrap(kind, flags)
    \/ \E parent \in Parents(Height(made.tree) + 1) : attach(parent)
    \/ \E imp \in {None, True, False}, has \in BOOLEAN :
           rewrap([_get_child_kwargs(EmptyDict) EXCEPT !.implicit_safe = imp,
                                                       !.has_implicit_safe = has])
    \/ propagate

\* trees grown by wrapping, set_child and propagation
SpecFlags == Init /\ [][NextFlags]_vars

\* C17: a node whose explicit or inherited safe flag has been False stays unsafe
\* through every later wrapping, set_child and propagation of implicit flags
C17_UnsafeKept == \A n \in NodesOf(made.tree) : n.oid \in keep => ~safe(n)

\* an !unsafe leaf and a node that inherited implicit_safe=False, two levels below a
\* root constructed with safe=True whose implicit flags were changed afterwards
C17_Witness ==
    /\ made.op = "rewrap"
    /\ Height(made.tree) >= 2
    /\ made.tree._safe = True /\ made.tree._implicit_safe = True
    /\ \E n \in NodesOf(made.tree) : n._safe = False /\ n.oid \in keep
    /\ \E n \in NodesOf(made.tree) : n._safe # False /\ n._implicit_safe = False /\ n.oid \in keep

----------------------------------------------------------------------------
(* NodePath: paths as lists and as strings.  A Python str is the sequence of *)
(* its characters.                                                          *)

\* bound on the number of components of the paths joined
MaxPathLen == 2

\* bound on the length of the strings split
MaxStrLen == 3

Digits == <<"0", "1", "2", "3", "4", "5", "6", "7", "8", "9">>

\* the class [0-9]
DigitChars == {Digits[k] : k \in 1..10}

\* the class [a-zA-Z0-9_], its letters cut down to a, b, y and Z
IdentChars == DigitChars \cup {"a", "b", "y", "Z", "_"}

\* a str component of a path, as its characters
Name(chars) == [isint |-> FALSE, s |-> chars, i |-> 0]

\* an int component of a path
Index(n) == [isint |-> TRUE, s |-> <<>>, i |-> n]

RECURSIVE _digits(_)
\* the decimal digits of n >= 0
_digits(n) ==
    IF n < 10 THEN <<Digits[n + 1]>>
    ELSE Append(_digits(n \div 10), Digits[(n % 10) + 1])

\* str(n) of an int, as in f'[{childname}]'
str(n) == IF n < 0 THEN <<"-">> \o _digits(-n) ELSE _digits(n)

RECURSIVE _value(_)
\* the number written by the digits
_value(chars) ==
    IF chars = <<>> THEN 0
    ELSE 10 * _value(SubSeq(chars, 1, Len(chars) - 1))
         + (CHOOSE d \in 0..9 : Digits[d + 1] = chars[Len(chars)])

\* int(text) for a text matched by -?[0-9]+
int(chars) == IF chars[1] = "-" THEN -_value(Tail(chars)) ELSE _value(chars)

\* NodePath._get_child_accessor with the dot left out
_get_child_accessor_nodot(childname, myname) ==
    IF childname.isint THEN <<"[">> \o str(childname.i) \o <<"]">> ELSE childname.s

\* NodePath._get_child_accessor(childname, myname)
_get_child_accessor(childname, myname) ==
    IF childname.isint THEN <<"[">> \o str(childname.i) \o <<"]">>
    ELSE (IF myname # <<>> THEN <<".">> ELSE <<>>) \o childname.s

RECURSIVE join_path(_)
\* NodePath.join_path(path_list)
join_path(path_list) ==
    IF path_list = <<>> THEN <<>>
    ELSE Let(join_path(SubSeq(path_list, 1, Len(path_list) - 1)), LAMBDA ret :
             ret \o _get_child_accessor(path_list[Len(path_list)], ret))

RECURSIVE _run(_, _, _)
\* the position after the longest run of characters of class that starts at k
_run(chars, k, class) ==
    IF k <= Len(chars) /\ chars[k] \in class THEN _run(chars, k + 1, class) ELSE k

NoMatch == [group |-> -1, beg |-> 0, end |-> 0]

\* the match of _path_component_regex at position k of chars: the group that
\* captured (0 for the dot), where the captured text begins and where the match ends
_match(chars, k) ==
    IF chars[k] \in IdentChars
    THEN IF k = 1 \/ chars[k - 1] = "."
         THEN [group |-> 1, beg |-> k, end |-> _run(chars, k, IdentChars)]
         ELSE NoMatch
    ELSE IF chars[k] = "["
    THEN Let(_run(chars, IF k < Len(chars) /\ chars[k + 1] = "-" THEN k + 2 ELSE k + 1,
                  DigitChars), LAMBDA close :
             IF close <= Len(chars) /\ chars[close] = "]" /\ chars[close - 1] \in DigitChars
             THEN [group |-> 2, beg |-> k + 1, end |-> close + 1]
             ELSE NoMatch)
    ELSE IF chars[k] = "." /\ k # 1 /\ k < Len(chars) /\ chars[k + 1] \notin {".", "["}
    THEN [group |-> 0, beg |-> k, end |-> k + 1]
    ELSE NoMatch

RECURSIVE _components(_, _)
\* the loops of split_path from position k on: ValueError when the next match does not
\* start at k or no match reaches the end, else the components the matches yield
_components(chars, k) ==
    IF k > Len(chars) THEN [exc |-> "", path |-> <<>>]
    ELSE Let(_match(chars, k), LAMBDA m :
             IF m.group = -1 THEN [exc |-> "ValueError", path |-> <<>>]
             ELSE Let(_components(chars, m.end), LAMBDA rest :
                      IF rest.exc # "" THEN rest
                      ELSE [exc |-> "",
                            path |-> (IF m.group = 1
                                      THEN <<Name(SubSeq(chars, m.beg, m.end - 1))>>
                                      ELSE IF m.group = 2
                                      THEN <<Index(int(SubSeq(chars, m.beg, m.end - 2)))>>
                                      ELSE <<>>) \o rest.path]))

\* list(NodePath.split_path(path_str)): [exc, path]
split_path(path_str) == _components(path_str, 1)

\* the components of the paths joined: negative and non-negative indices of one and
\* two digits, identifiers, among them numeric-looking ones
Components ==
    {Index(n) : n \in {-12, -1, 0, 7, 10}}
    \cup {Name(chars) : chars \in {<<"a">>, <<"_", "b">>, <<"0">>, <<"1", "2">>, <<"Z", "9">>}}

RECURSIVE Seqs(_, _)
\* the sequences of at most n elements of S
Seqs(S, n) ==
    IF n = 0 THEN {<<>>}
    ELSE Seqs(S, n - 1) \cup {Append(q, e) : q \in {r \in Seqs(S, n - 1) : Len(r) = n - 1}, e \in S}

\* the characters of the strings split
PathChars == {"a", "0", ".", "[", "]", "-"}

\* NodePath.join_path(path_list)
NodePath_join_path(path_list) ==
    /\ pres' = [op |-> "join_path", arg |-> path_list, res |-> join_path(path_list),
                from |-> path_list]
    /\ UNCHANGED <<bvars, evars, svars, xvars>>

\* list(NodePath.split_path(s)) for the string s that join_path returned
split_joined ==
    /\ pres.op = "join_path"
    /\ pres' = [op |-> "split_joined", arg |-> pres.res, res |-> split_path(pres.res),
                from |-> pres.from]
    /\ UNCHANGED <<bvars, evars, svars, xvars>>

\* list(NodePath.split_path(path_str)) for any string
NodePath_split_path(path_str) ==
    /\ pres' = [op |-> "split_path", arg |-> path_str, res |-> split_path(path_str),
                from |-> <<>>]
    /\ UNCHANGED <<bvars, evars, svars, xvars>>

\* bound on the number of components of the paths looked up
MaxLookupLen == 3

\* NodePath.get_list_path(path) for a str: the components split_path yields
\* ([exc, path])
get_list_path(path_str) == split_path(path_str)

\* the list ret of _get_node: what _add appended for each node visited
_added(nodes, path, names) ==
    [k \in 1..Len(nodes) |->
        IF names
        THEN [node |-> nodes[k], name |-> IF k = 1 THEN None ELSE Some(path[k - 1]),
              path |-> SubSeq(path, 1, k - 1)]
        ELSE nodes[k]]

\* self.ayns.get_node(path, intermediate=..., names=..., incomplete=...) for a path
\* given as a str: [exc, ret], ret being None, a node as Some(node), a tuple
\* [node, name, path] or the list of these
ayns_get_node(self, path_str, intermediate, names, incomplete) ==
    Let(get_list_path(path_str), LAMBDA p :
        IF p.exc # "" THEN [exc |-> p.exc, ret |-> None]
        ELSE Let(_get_node(self, p.path), LAMBDA nodes :
                 IF nodes[Len(nodes)] = None /\ ~Truthy(incomplete)
                 THEN IF incomplete = None THEN [exc |-> "", ret |-> None]
                      ELSE [exc |-> "KeyError", ret |-> None]
                 ELSE Let(_added(nodes, p.path, names), LAMBDA ret :
                          [exc |-> "", ret |-> IF intermediate THEN ret ELSE ret[Len(ret)]])))

yk == Name(<<"y">>)

ak == Name(<<"a">>)

bk == Name(<<"b">>)

\* ConfigList(value), the names of its children being path components
List(elems) ==
    ComposedNode_init("list", [k \in 1..Len(elems) |-> Entry(Index(k - 1), elems[k])], NoFlags)

\* { y: [ { a: 1 }, { a: 2, b: 3 } ], a: 4 } and [ { a: 1 }, [ 5, 6 ] ]
LookupTrees ==
    {ConfigDict(<<Entry(yk, List(<<ConfigDict(<<Entry(ak, Leaf(1))>>, NoFlags),
                                   ConfigDict(<<Entry(ak, Leaf(2)), Entry(bk, Leaf(3))>>,
                                              NoFlags)>>)),
                  Entry(ak, Leaf(4))>>, NoFlags),
     List(<<ConfigDict(<<Entry(ak, Leaf(1))>>, NoFlags), List(<<Leaf(5), Leaf(6)>>)>>)}

\* the components of the paths looked up
LookupComponents == {yk, ak, bk} \cup {Index(n) : n \in {-3, -1, 0, 1, 2}}

\* root.ayns.get_node(path, intermediate=..., names=..., incomplete=...); tree is
\* the root after the call (no statement of _get_node assigns to a node)
get_node_call(root_node, path_list, intermediate, names, incomplete) ==
    /\ pres' = [op |-> "get_node",
                arg |-> [root |-> root_node, path |-> join_path(path_list),
                         intermediate |-> intermediate, names |-> names,
                         incomplete |-> incomplete],
                res |-> ayns_get_node(root_node, join_path(path_list),
                                      intermediate, names, incomplete),
                from |-> root_node]
    /\ UNCHANGED <<bvars, evars, svars, xvars>>

NextPath ==
    \/ /\ pres.op = ""
       /\ \/ \E path_list \in Seqs(Components, MaxPathLen) : NodePath_join_path(path_list)
          \/ \E path_str \in Seqs(PathChars, MaxStrLen) : NodePath_split_path(path_str)
          \/ \E root_node \in LookupTrees, path_list \in Seqs(LookupComponents, MaxLookupLen),
                intermediate \in BOOLEAN, names \in BOOLEAN, incomplete \in {None, True, False} :
                 get_node_call(root_node, path_list, intermediate, names, incomplete)
    \/ split_joined

\* paths joined, split and looked up
SpecPath == Init /\ [][NextPath]_vars

\* C18: for every path p of integer indices and identifiers, split_path(join_path(p))
\* is p, integers staying integers and numeric-looking identifiers staying strings;
\* the empty path is joined to the empty string, which splits to the empty path
C18_RoundTrip ==
    /\ pres.op = "split_joined" => pres.res = [exc |-> "", path |-> pres.from]
    /\ (pres.op = "join_path" /\ pres.arg = <<>>) => pres.res = <<>>
    /\ (pres.op \in {"split_joined", "split_path"} /\ pres.arg = <<>>)
           => pres.res = [exc |-> "", path |-> <<>>]

\* the path [-12, '12'] joined to '[-12].12' and split again
C18_Witness ==
    /\ pres.op = "split_joined"
    /\ pres.from = <<Index(-12), Name(<<"1", "2">>)>>
    /\ pres.arg = <<"[", "-", "1", "2", "]", ".", "1", "2">>
    /\ pres.res.path = pres.from

----------------------------------------------------------------------------
(* Properties of path lookup *)

\* the path looked up by the latest get_node call, as names of children
LookedUp == get_list_path(pres.arg.path).path

\* the latest call is a get_node whose path ends with a negative index i of a list
\* of length n, -n <= i < 0
NegativeIndexCall ==
    /\ pres.op = "get_node" /\ LookedUp # <<>>
    /\ Lookup(pres.arg.root, Parent(LookedUp)) # None
    /\ isinstance_list(Lookup(pres.arg.root, Parent(LookedUp))[1])
    /\ LookedUp[Len(LookedUp)].isint
    /\ LookedUp[Len(LookedUp)].i < 0
    /\ -len(Lookup(pres.arg.root, Parent(LookedUp))[1]) <= LookedUp[Len(LookedUp)].i

\* C19: for a list of length n and an index i with -n <= i < 0, get_node with the
\* component i returns the node get_child(i) returns, the element at position n + i,
\* and has_child(i) is true as get_child(i) returns a child
C19_NegativeIndex ==
    (NegativeIndexCall /\ ~pres.arg.intermediate /\ ~pres.arg.names) =>
        LET list == Lookup(pres.arg.root, Parent(LookedUp))[1]
            name == LookedUp[Len(LookedUp)]
        IN  /\ pres.res.exc = ""
            /\ pres.res.ret = get_child(list, name)
            /\ pres.res.ret = Some(list.children[len(list) + name.i + 1].node)
            /\ has_child(list, name) = (get_child(list, name) # None)

\* 'y[-1]' looked up in { y: [ { a: 1 }, { a: 2, b: 3 } ], a: 4 }, where get_child(-1)
\* of the list returns its last element
C19_Witness ==
    /\ NegativeIndexCall /\ ~pres.arg.intermediate /\ ~pres.arg.names
    /\ pres.arg.path = <<"y", "[", "-", "1", "]">>
    /\ get_child(Lookup(pres.arg.root, <<yk>>)[1], Index(-1))
           = Lookup(pres.arg.root, <<yk, Index(1)>>)

\* the position of the first component of p that names no node of t (0 when every
\* component names one)
FirstMissing(t, p) ==
    IF \A k \in 1..Len(p) : Lookup(t, SubSeq(p, 1, k)) # None THEN 0
    ELSE CHOOSE k \in 1..Len(p) :
            /\ Lookup(t, SubSeq(p, 1, k)) = None
            /\ \A j \in 1..(k - 1) : Lookup(t, SubSeq(p, 1, j)) # None

\* what get_node reports for the k-th node on the way along p in t
Reported(t, p, k, names) ==
    IF names
    THEN [node |-> Lookup(t, SubSeq(p, 1, k - 1)), name |-> IF k = 1 THEN None ELSE Some(p[k - 1]),
          path |-> SubSeq(p, 1, k - 1)]
    ELSE Lookup(t, SubSeq(p, 1, k - 1))

\* the latest call is a get_node on a path with a missing component
MissingCall == pres.op = "get_node" /\ FirstMissing(pres.arg.root, LookedUp) # 0

\* C20: get_node on a path with a missing component raises KeyError for
\* incomplete=False and returns None for incomplete=None; for incomplete=True it
\* returns the missing node as None (with names, as (None, name, path)) and, with
\* intermediate, the visited nodes in order followed by one such entry for the first
\* missing component; the tree is as it was
C20_MissingModes ==
    MissingCall =>
        LET m == FirstMissing(pres.arg.root, LookedUp)
        IN  /\ pres.arg.incomplete = False => pres.res.exc = "KeyError"
            /\ pres.arg.incomplete = None => pres.res = [exc |-> "", ret |-> None]
            /\ pres.arg.incomplete = True =>
                /\ pres.res.exc = ""
                /\ IF pres.arg.intermediate
                   THEN pres.res.ret = [k \in 1..(m + 1) |->
                                           Reported(pres.arg.root, LookedUp, k, pres.arg.names)]
                   ELSE pres.res.ret = Reported(pres.arg.root, LookedUp, m + 1, pres.arg.names)
            /\ pres.from = pres.arg.root

\* 'y[1].y' looked up with intermediate, names and incomplete=True: the root, the
\* list, its element and the entry (None, 'y', ['y', 1, 'y'])
C20_Witness ==
    /\ MissingCall
    /\ pres.arg.path = <<"y", "[", "1", "]", ".", "y">>
    /\ pres.arg.intermediate /\ pres.arg.names /\ pres.arg.incomplete = True
    /\ Len(pres.res.ret) = 4
    /\ pres.res.ret[4] = [node |-> None, name |-> Some(yk), path |-> <<yk, Index(1), yk>>]
    /\ pres.res.ret[3].node = Lookup(pres.arg.root, <<yk, Index(1)>>)

----------------------------------------------------------------------------
----------------------------------------------------------------------------
(* Wrapping raw values: ConfigNode(value) for a value that is not a node *)

\* A raw value is a record [t, id, v, items]: t is "dict", "list" or "scalar", id
\* stands for id(value) (two occurrences with one id are one Python object), v is
\* the value of a scalar and items the [name, node] entries of a container.

\* bound on the number of children of the root of a raw tree
MaxWidth == 2

RawScalar(id, v) == [t |-> "scalar", id |-> id, v |-> v, items |-> <<>>]

RawDict(id, items) == [t |-> "dict", id |-> id, v |-> 0, items |-> items]

RawList(id, elems) ==
    [t |-> "list", id |-> id, v |-> 0,
     items |-> [k \in 1..Len(elems) |-> Entry(IntKey(k - 1), elems[k])]]

\* `has_value and nodes_memo is not None and id(value) in nodes_memo` with the memo
\* never consulted
_memoised_never(value, nodes_memo) == FALSE

\* `has_value and nodes_memo is not None and id(value) in nodes_memo`
_memoised(value, nodes_memo) == nodes_memo # None /\ value.id \in DOMAIN nodes_memo[1]

\* the node object NamespaceableMeta.__call__ creates for `value` before its
\* children are set: its kind by type deduction, its flags from the keywords;
\* oid numbers the objects in the order of their creation
_new_node(value, flags, kwargs, oid) ==
    [ConfigNode_init(value.t, value.v, <<>>) EXCEPT
        !._priority = IF kwargs.has_priority THEN kwargs.priority ELSE flags.priority,
        !._delete = flags.delete, !._allow_new = flags.allow_new, !._safe = flags.safe,
        !._implicit_delete = kwargs.implicit_delete,
        !._implicit_allow_new = kwargs.implicit_allow_new,
        !._implicit_safe = IF kwargs.has_implicit_safe THEN kwargs.implicit_safe ELSE None,
        !.oid = oid]

\* the keywords of a constructor call that passes no implicit flag
NoKwargs ==
    [implicit_delete |-> None, implicit_allow_new |-> None, has_implicit_safe |-> FALSE,
     implicit_safe |-> None, has_priority |-> FALSE, priority |-> None]

RECURSIVE ConfigNodeMeta_call_raw(_, _, _, _, _)
RECURSIVE _wrap_raw(_, _, _, _, _, _)
\* the dict comprehension of ComposedNode.__init__ from the k-th item on:
\* [children, nodes_memo, next]
_wrap_raw(items, kwargs, nodes_memo, next, k, acc) ==
    IF k > Len(items) THEN [children |-> acc, nodes_memo |-> nodes_memo, next |-> next]
    ELSE Let(ConfigNodeMeta_call_raw(items[k].node, NoFlags, kwargs, Some(nodes_memo), next),
             LAMBDA r :
             _wrap_raw(items, kwargs, r.nodes_memo[1], r.next, k + 1,
                       Append(acc, Entry(items[k].name, r.ret))))

\* ConfigNode(value, nodes_memo=nodes_memo, **flags, **kwargs) for a raw value:
\* [ret, nodes_memo, next], next being the number of the next object created.
\* A composed node first creates its children with the keywords it was given (but
\* delete, allow_new and safe) updated by _get_child_kwargs, sharing nodes_memo (a
\* new dict when none was passed), and is stored in the memo after them.
ConfigNodeMeta_call_raw(value, flags, kwargs, nodes_memo, next) ==
    IF _memoised(value, nodes_memo)
    THEN [ret |-> nodes_memo[1][value.id], nodes_memo |-> nodes_memo, next |-> next]
    ELSE Let(_new_node(value, flags, kwargs, next), LAMBDA self :
         Let(IF value.t = "scalar"
             THEN [children |-> <<>>, nodes_memo |-> notnone_or(nodes_memo, Some(<<>>))[1],
                   next |-> next + 1]
             ELSE _wrap_raw(value.items,
                            [_get_child_kwargs(self) EXCEPT
                                !.has_priority = self._priority # None,
                                !.priority = self._priority],
                            notnone_or(nodes_memo, Some(<<>>))[1], next + 1, 1, <<>>),
             LAMBDA c :
             Let([self EXCEPT !.children = c.children], LAMBDA ret :
                 [ret |-> ret,
                  nodes_memo |-> IF nodes_memo = None THEN None
                                 ELSE Some([o \in DOMAIN c.nodes_memo \cup {value.id} |->
                                               IF o = value.id THEN ret ELSE c.nodes_memo[o]]),
                  next |-> c.next])))

RECURSIVE _unique(_, _, _)
\* the filter `if id(node) in memo and not allow_duplicates: continue` over the
\* nodes one child subtree yields: [memo, out]
_unique(seq, memo, k) ==
    IF k > Len(seq) THEN [memo |-> memo, out |-> <<>>]
    ELSE IF seq[k].node.oid \in memo THEN _unique(seq, memo, k + 1)
    ELSE Let(_unique(seq, memo \cup {seq[k].node.oid}, k + 1), LAMBDA r :
             [memo |-> r.memo, out |-> <<seq[k]>> \o r.out])

RECURSIVE _nodes_unique(_, _, _, _)
\* the loop over the children of nodes_with_paths(allow_duplicates=False), from the
\* k-th child on
_nodes_unique(self, prefix, memo, k) ==
    IF k > Len(self.children) THEN <<>>
    ELSE IF self.children[k].node.oid \in memo THEN _nodes_unique(self, prefix, memo, k + 1)
    ELSE Let(_unique(nodes_with_paths(self.children[k].node,
                                      Append(prefix, self.children[k].name), TRUE),
                     memo, 1), LAMBDA r :
             r.out \o _nodes_unique(self, prefix, r.memo, k + 1))

\* ComposedNode.ayns.nodes(recursive=True, include_self=False, allow_duplicates):
\* the sequence of [path, node] behind the nodes it yields
nodes(self, allow_duplicates) ==
    IF allow_duplicates THEN nodes_with_paths(self, <<>>, FALSE)
    ELSE _nodes_unique(self, <<>>, {}, 1)

pp == StrKey("p")

qq == StrKey("q")

rr == StrKey("r")

\* the objects a raw tree is made of: two scalars, and containers that hold the
\* scalar leaf; one id is one object, so the containers of one tree agree on leaf
Pool(leaf) ==
    {RawScalar(1, 7), RawScalar(2, 8),
     RawList(3, <<leaf>>),
     RawDict(4, <<Entry(foo, leaf)>>),
     RawDict(5, <<Entry(bar, RawList(3, <<leaf>>))>>),
     RawList(6, <<RawDict(4, <<Entry(foo, leaf)>>), RawList(3, <<leaf>>)>>)}

\* the raw trees: a dict or a list of up to MaxWidth objects of one pool
RawTrees ==
    UNION {UNION {{RawDict(9, [k \in 1..n |-> Entry(<<pp, qq, rr, foo, bar>>[k], c[k])]),
                   RawList(9, c)} : c \in [1..n -> Pool(leaf)]} :
           leaf \in {RawScalar(1, 7), RawScalar(2, 8)}, n \in 1..MaxWidth}

\* the flags given to the constructor of the root
RootFlags == {NoFlags, Flags(None, True, None), Flags(Some(WEAK), None, False), Unsafe}

\* node = ConfigNode(value, **flags)
ConfigNode_call(value, flags) ==
    /\ built.op = ""
    /\ given' = value
    /\ built' = [NotBuilt EXCEPT
                    !.op = "ConfigNode",
                    !.node = ConfigNodeMeta_call_raw(value, flags, NoKwargs, None, 1).ret]
    /\ UNCHANGED <<bvars, evars, svars, pvars, wvars, mvars>>

\* list(node.ayns.nodes(allow_duplicates=allow_duplicates))
nodes_call(allow_duplicates) ==
    /\ built.op = "ConfigNode"
    /\ built' = [built EXCEPT !.op = "nodes", !.allow_duplicates = allow_duplicates,
                              !.nodes = nodes(built.node, allow_duplicates)]
    /\ UNCHANGED <<bvars, evars, svars, pvars, wvars, mvars, given>>

NextWrap ==
    \/ /\ built.op = ""
       /\ \E value \in RawTrees, flags \in RootFlags : ConfigNode_call(value, flags)
    \/ \E allow_duplicates \in BOOLEAN : nodes_call(allow_duplicates)

\* raw trees wrapped into nodes and then iterated
SpecWrap == Init /\ [][NextWrap]_vars

RECURSIVE RawPaths(_)
\* the paths of a raw tree, the empty path of its root included
RawPaths(value) ==
    {<<>>} \cup UNION {{<<value.items[k].name>> \o p : p \in RawPaths(value.items[k].node)} :
                       k \in 1..Len(value.items)}

RECURSIVE RawAt(_, _)
\* the object at a path of a raw tree
RawAt(value, p) ==
    IF p = <<>> THEN value
    ELSE RawAt(value.items[CHOOSE k \in 1..Len(value.items) : value.items[k].name = p[1]].node,
               Tail(p))

\* pairs of distinct paths of the wrapped raw tree that lead to one object
SharedPaths ==
    {pq \in RawPaths(given) \X RawPaths(given) :
        pq[1] # pq[2] /\ RawAt(given, pq[1]).id = RawAt(given, pq[2]).id}

\* C21: a raw value reachable through two paths is wrapped into one node object,
\* found at both paths, and nodes(allow_duplicates=False) yields that node once
C21_SharedWrappedOnce ==
    built.op # "" =>
        \A pq \in SharedPaths :
            /\ Lookup(built.node, pq[1]) # None
            /\ Lookup(built.node, pq[1]) = Lookup(built.node, pq[2])
            /\ (built.op = "nodes" /\ ~built.allow_duplicates) =>
                   Cardinality({k \in 1..Len(built.nodes) :
                                   built.nodes[k].node.oid = Lookup(built.node, pq[1])[1].oid}) = 1

\* C21 witness: a list shared by two different nested containers (and by the root)
\* was wrapped and the nodes were iterated without duplicates, fewer than with
C21_Witness ==
    /\ built.op = "nodes" /\ ~built.allow_duplicates
    /\ \E pq \in SharedPaths :
           /\ Len(pq[1]) = 2 /\ Len(pq[2]) = 2 /\ pq[1][1] # pq[2][1]
           /\ RawAt(given, pq[1]).t = "list"
    /\ Len(built.nodes) < Len(nodes(built.node, TRUE))

----------------------------------------------------------------------------
----------------------------------------------------------------------------
(* Nodes tagged !notnew themselves *)

\* { foo: !notnew 1 }, { fooo: !notnew 1 }, !notnew { fooo: 1 }, { fooo: !notnew { bar: 1 } },
\* { foo: { bar: !notnew 1 } }, { fooo: !notnew [1, 2] } and the same without the tag
OwnNotNewDocs ==
    {Doc(k, ConfigScalar(1, Flags(None, None, a)), n) :
        k \in {foo, fooo}, a \in {None, False}, n \in BOOLEAN}
    \cup {Doc(k, ConfigDict(<<Entry(bar, ConfigScalar(1, Flags(None, None, a)))>>,
                            Flags(None, None, b)), FALSE) :
            k \in {foo, fooo}, a \in {None, False}, b \in {None, False}}
    \cup {Doc(k, ListNode("list", OneTwo, Flags(None, None, False)), FALSE) : k \in {foo, fooo}}

NextNotNew ==
    \/ \E doc \in OwnNotNewDocs : Len(stages) < MaxStages /\ add_source(doc)
    \/ flatten_begin
    \/ flatten_merge
    \/ flatten_end

\* builders over documents whose nodes carry the !notnew tag themselves
SpecNotNew == Init /\ [][NextNotNew]_vars

\* the paths below the root at which the stage s holds a node tagged !notnew
\* itself although the destination d has nothing there
OwnNotNew(d, s) ==
    {p \in PathsOf(s) : /\ p # <<>>
                        /\ Lookup(d, p) = None
                        /\ get_node(s, p)[1]._allow_new = False}

\* C22: a merge of a stage that holds a node whose own allow_new flag is false at
\* a path the destination lacks raises the allow_new error, naming a path at which
\* the stage holds a node that must not be new (by its own flag or an inherited
\* one) and the destination holds nothing
C22_OwnNotNew ==
    (Merged \/ MergeFailed) =>
        (OwnNotNew(dest, src) # {} =>
            /\ MergeFailed
            /\ err.exc = "ValueError" /\ err.msg = MsgNotNew
            /\ err.epath \in OwnNotNew(dest, src) \cup Offending(dest, src))

\* C22 witness: { foo: 1 } then { fooo: !notnew { bar: 1 } }, a dict tagged !notnew
\* itself at a new path, raised the allow_new error
C22_Witness ==
    /\ MergeFailed
    /\ <<fooo>> \in OwnNotNew(dest, src)
    /\ err.exc = "ValueError" /\ err.msg = MsgNotNew

----------------------------------------------------------------------------
----------------------------------------------------------------------------
(* The delete flag under construction, set_child and propagation *)

\* the delete keyword of a constructor: not passed, True (!del) or False (!nodel)
DeleteFlags == {Flags(None, d, None) : d \in {None, True, False}}

\* the nodes a tree is started from: 1, !del 1, { x: 1 }, !nodel { x: !del 1 },
\* [1], !nodel [1], ...
DeleteFirst ==
    {Obj(ConfigScalar(1, f), <<0>>) : f \in DeleteFlags}
    \cup {Obj(ComposedNode_init(kind, <<Entry(IF kind = "list" THEN IntKey(0) ELSE x,
                                              Obj(ConfigScalar(1, f), <<0, 1>>))>>, g), <<0>>) :
            kind \in {"dict", "list"}, f \in DeleteFlags, g \in DeleteFlags}

\* the parents a tree is attached under, at height h: { }, { y: 2 }, [ ] and [ 2 ]
\* constructed with delete None, True or False
DeleteParents(h) ==
    {Obj(ComposedNode_init(kind, es, g), <<h>>) :
        kind \in {"dict", "list"},
        es \in {<<>>, <<Entry(yy, Obj(ConfigScalar(2, NoFlags), <<h, 1>>))>>},
        g \in DeleteFlags}

NextDelete ==
    \/ \E n \in DeleteFirst : ConfigNode_new(n)
    \/ \E kind \in {"dict", "list"}, flags \in DeleteFlags : wrap(kind, flags)
    \/ \E parent \in DeleteParents(Height(made.tree) + 1) : attach(parent)
    \/ propagate

\* trees with delete flags grown by wrapping, set_child and propagation
SpecDelete == Init /\ [][NextDelete]_vars

\* the lengths of the proper prefixes of path p of tree t whose node set delete itself
DeleteSetAbove(t, p) ==
    {k \in 0..(Len(p) - 1) : get_node(t, SubSeq(p, 1, k))[1]._delete # None}

\* the value the delete flag of the node n at path p of t resolves to: the explicit
\* value of the nearest ancestor that set one, else the default of the kind of n
InheritedDelete(t, p, n) ==
    IF DeleteSetAbove(t, p) = {} THEN _default_delete(n)
    ELSE get_node(t, SubSeq(p, 1, CHOOSE k \in DeleteSetAbove(t, p) :
                                      \A j \in DeleteSetAbove(t, p) : j <= k))[1]._delete[1]

\* C23: after construction and after every set_child and propagation step, a node
\* without an explicit delete flag has the delete value of its nearest ancestor
\* that set one explicitly, and the default of its own kind when no ancestor did
C23_DeleteInherited ==
    made.op # "" =>
        \A p \in PathsOf(made.tree) :
            get_node(made.tree, p)[1]._delete = None
            => delete(get_node(made.tree, p)[1])
                 = InheritedDelete(made.tree, p, get_node(made.tree, p)[1])

\* C23 witness: a leaf without a flag of its own two dicts below a root tagged
\* !del, attached by set_child, and its delete value is the root's
C23_Witness ==
    /\ made.op = "set_child"
    /\ made.tree._delete = True
    /\ \E p \in PathsOf(made.tree) :
           /\ Len(p) = 2
           /\ get_node(made.tree, p)[1].kind = "scalar"
           /\ get_node(made.tree, p)[1]._delete = None
           /\ get_node(made.tree, SubSeq(p, 1, 1))[1]._delete = None
           /\ get_node(made.tree, SubSeq(p, 1, 1))[1].kind = "dict"
           /\ delete(get_node(made.tree, p)[1])

----------------------------------------------------------------------------
----------------------------------------------------------------------------
(* Merging plain dicts into function nodes *)

\* BindNode(func, args, **flags) / CallNode(func, args, **flags): the field value
\* holds _func, the name of the target function (a number other than 0)
BoundNode(kind, func, entries, flags) == [FunctionNode(kind, entries, flags) EXCEPT !.value = func]

\* the names of the target functions
Funcs == {5, 6}

\* { foo: !bind:f { bar: 1 } }, { foo: !call:g { bar: !force 1 } }, ... and the plain
\* dicts { foo: { bar: 2 } }, { foo: !del { x: 2 } }, { foo: !del !weak { x: 2 } }, ...
BindDocs ==
    {Doc(foo, BoundNode(kind, f, <<Entry(bar, ConfigScalar(1, Flags(p, None, None)))>>, NoFlags),
         FALSE) : kind \in FunctionKinds, f \in Funcs, p \in Priorities}
    \cup {Doc(foo, ConfigDict(<<Entry(k, Leaf(2))>>, Flags(q, d, None)), FALSE) :
            k \in {bar, x}, q \in Priorities, d \in {None, True}}

NextBind ==
    \/ \E doc \in BindDocs : Len(stages) < MaxStages /\ add_source(doc)
    \/ flatten_begin
    \/ flatten_merge
    \/ flatten_end

\* builders over documents with function nodes and plain dicts
SpecBind == Init /\ [][NextBind]_vars

\* the merge of src into dest met, at path p, a function node of dest and a plain
\* dict of src of equal priority whose delete is effective, and no argument of the
\* function node outranks the dict or the dict's value for it: the dict replaces
\* all of the node's content
DictReplacesFunction(p) ==
    /\ Lookup(dest, p) # None /\ Lookup(dest, p)[1].kind \in FunctionKinds
    /\ get_node(src, p)[1].kind = "dict"
    /\ delete(get_node(src, p)[1])
    /\ priority(get_node(src, p)[1]) = priority(Lookup(dest, p)[1])
    /\ \A k \in 1..len(Lookup(dest, p)[1]) :
           LET e == Lookup(dest, p)[1].children[k]
           IN  /\ e.node.kind = "scalar"
               /\ priority(e.node) <= priority(get_node(src, p)[1])
               /\ has_child(get_node(src, p)[1], e.name)
                  => priority(e.node) <= priority(get_child(get_node(src, p)[1], e.name)[1])

\* C24: when a plain dict with delete effectively true is merged at equal priority
\* into a Bind or Call node and replaces all of its content, the node at that path
\* afterwards is a function node of the same kind with the same target function,
\* holding the children of the plain dict
C24_FunctionKept ==
    Merged =>
        \A p \in PathsOf(src) :
            DictReplacesFunction(p) =>
                /\ get_node(root, p) # None
                /\ get_node(root, p)[1].kind = Lookup(dest, p)[1].kind
                /\ get_node(root, p)[1].value = Lookup(dest, p)[1].value
                /\ native_value(get_node(root, p)[1]).items
                     = native_value(get_node(src, p)[1]).items

\* C24 witness: { foo: !bind:5 { bar: 1 } } was merged with { foo: !del { x: 2 } }
C24_Witness ==
    /\ Merged
    /\ DictReplacesFunction(<<foo>>)
    /\ dest = Doc(foo, BoundNode("bind", 5, <<Entry(bar, Leaf(1))>>, NoFlags), FALSE)
    /\ src = Doc(foo, ConfigDict(<<Entry(x, Leaf(2))>>, Flags(None, True, None)), FALSE)


\* ---------------------------------------------------------------------------
\* Builder.preprocess, step by step
\* ---------------------------------------------------------------------------

\* a document without includes: { x: 1 }
PlainDoc == ConfigDict(<<Entry(x, ConfigScalar(1, NoFlags))>>, NoFlags)

\* a document with an include under a key: { k: !include file }
NestedInclude(file) == ConfigDict(<<Entry(kk, IncludeNode(file, NoFlags))>>, NoFlags)

\* a document that is an include: !include file
TopInclude(file) == IncludeNode(file, NoFlags)

\* the files by name, each the documents yaml.parse yields for it; no file is
\* named 0.  1: one plain document, 2: two plain documents, 3: no document,
\* 4: includes itself, 5 and 6: include each other, 7: includes 1 under a key,
\* 8: is the two documents of 2, 9: is the no documents of 3, 10: includes a
\* file that does not exist, 11: includes 7 as a document, then a plain document
IncludeFiles ==
    << <<PlainDoc>>, <<PlainDoc, PlainDoc>>, <<>>, <<NestedInclude(4)>>,
       <<NestedInclude(6)>>, <<TopInclude(5)>>, <<NestedInclude(1)>>,
       <<TopInclude(2)>>, <<TopInclude(3)>>, <<NestedInclude(0)>>,
       <<TopInclude(7), PlainDoc>> >>

\* subbuilder.add_source finds the file in one of the lookup directories
exists(file) == file \in DOMAIN IncludeFiles

\* the include node stage.ayns.preprocess meets in map_nodes, if any: the file
\* it names and the key it sits under (None when the stage is the include)
_include_of(stage) ==
    IF stage.kind = "include" THEN Some([file |-> stage.value, at |-> None])
    ELSE IF stage.kind = "dict"
              /\ \E k \in DOMAIN stage.children : stage.children[k].node.kind = "include"
    THEN Let(CHOOSE k \in DOMAIN stage.children :
                 stage.children[k].node.kind = "include", LAMBDA k :
             Some([file |-> stage.children[k].node.value,
                   at |-> Some(stage.children[k].name)]))
    ELSE None

\* StreamNode(builder): a list of the stages of the builder, delete=False
StreamNodes(stgs) == ListNode("list", stgs, Flags(None, False, None))

\* a splice that moves the index on by one stage only
_advance_one(new_stages) == 1

\* i += len(new_stage.stages)
_advance(new_stages) == Len(new_stages)

\* the exception as it leaves Builder.preprocess of the top-level builder:
\* on_preprocess rethrows what its implementation raises as a PreprocessError
rethrow_as_preprocess_error(exc, inside) ==
    [exc |-> IF inside THEN "PreprocessError" ELSE exc, cause |-> exc]

\* Builder.add_source(file) on the top-level builder: every document of the
\* file is appended to the stages
Builder_add_source_file(file) ==
    /\ ppc = "idle"
    /\ Len(builders[1].files) < MaxStages
    /\ builders' = <<[builders[1] EXCEPT
                        !.stages = @ \o IncludeFiles[file],
                        !.files = Append(@, file),
                        !.count = @ \o [k \in DOMAIN IncludeFiles[file] |-> 0]]>>
    /\ UNCHANGED <<bvars, evars, svars, pvars, mvars, given, built, ppc, perr>>

\* Builder.preprocess is called on the top-level builder: i = 0
Builder_preprocess ==
    /\ ppc = "idle"
    /\ Len(builders[1].stages) > 0
    /\ ppc' = "running"
    /\ builders' = <<[builders[1] EXCEPT !.idx = 0]>>
    /\ UNCHANGED <<bvars, evars, svars, pvars, mvars, given, built, perr>>

\* one pass through the loop body of preprocess in the innermost builder, up to
\* the point where an include hands over to its subbuilder: current_stage(i) is
\* entered; a stage without includes is returned as it is and the scope is left
\* with i += 1; an include of a missing file raises, as does one nested deeper
\* than the interpreter allows, and the exception passes through the scopes
\* without restoring _current_stage; any other include adds the file to a new
\* subbuilder and calls its build()
preprocess_stage ==
    /\ ppc = "running"
    /\ \E d \in {Len(builders)} : \E b \in {builders[d]} :
         /\ b.state = "loop"
         /\ b.idx < Len(b.stages)
         /\ \E inc \in {_include_of(b.stages[b.idx + 1])} :
              \E entered \in {[b EXCEPT !.old = b.cur, !.cur = Some(b.idx),
                                        !.count[b.idx + 1] = @ + 1]} :
                IF inc = None
                THEN /\ builders' = [builders EXCEPT ![d] =
                                        [entered EXCEPT !.idx = @ + 1, !.cur = entered.old]]
                     /\ UNCHANGED <<ppc, perr>>
                ELSE IF ~exists(inc[1].file)
                THEN /\ builders' = [builders EXCEPT ![d] = entered]
                     /\ ppc' = "raised"
                     /\ perr' = rethrow_as_preprocess_error("FileNotFoundError", TRUE)
                ELSE IF d + 1 > RecursionLimit
                THEN /\ builders' = [builders EXCEPT ![d] = entered]
                     /\ ppc' = "raised"
                     /\ perr' = rethrow_as_preprocess_error("RecursionError", TRUE)
                ELSE /\ builders' = [builders EXCEPT ![d] = [entered EXCEPT !.state = "waiting"]]
                                    \o <<[Builder_init EXCEPT
                                            !.stages = IncludeFiles[inc[1].file],
                                            !.files = <<inc[1].file>>,
                                            !.count = [k \in DOMAIN IncludeFiles[inc[1].file] |-> 0]]>>
                     /\ UNCHANGED <<ppc, perr>>
    /\ UNCHANGED <<bvars, evars, svars, pvars, mvars, given, built>>

\* the loop of preprocess is over in the innermost builder: the top-level
\* builder returns; a subbuilder returns its StreamNode to the include, which
\* under a key replaces the include in its document (the stage is still the
\* same object, i += 1) and as a document has its place taken by the stages of
\* the subbuilder (i += len); the scope is left, and the assertion raises when
\* i is what it was
preprocess_return ==
    /\ ppc = "running"
    /\ \E d \in {Len(builders)} : \E b \in {builders[d]} :
         /\ b.state = "loop"
         /\ b.idx >= Len(b.stages)
         /\ IF d = 1
            THEN /\ ppc' = "returned"
                 /\ UNCHANGED <<builders, perr>>
            ELSE \E p \in {builders[d - 1]} :
                 \E inc \in {_include_of(p.stages[p.idx + 1])} :
                   IF inc[1].at # None
                   THEN \E stream \in {StreamNodes(b.stages)} :
                        \E stage \in {set_child(p.stages[p.idx + 1], inc[1].at[1], stream).self} :
                        /\ builders' = SubSeq(builders, 1, d - 2) \o
                            <<[p EXCEPT !.stages[p.idx + 1] = stage,
                                        !.idx = @ + 1, !.cur = p.old, !.state = "loop"]>>
                        /\ UNCHANGED <<ppc, perr>>
                   ELSE \E next \in {p.idx + _advance(b.stages)} :
                        /\ builders' = SubSeq(builders, 1, d - 2) \o
                            <<[p EXCEPT !.stages = SubSeq(@, 1, p.idx) \o b.stages
                                                    \o SubSeq(@, p.idx + 2, Len(@)),
                                        !.count = SubSeq(@, 1, p.idx) \o b.count
                                                    \o SubSeq(@, p.idx + 2, Len(@)),
                                        !.idx = next, !.cur = p.old, !.state = "loop"]>>
                        /\ IF next = p.idx
                           THEN /\ ppc' = "raised"
                                /\ perr' = rethrow_as_preprocess_error("AssertionError", d > 2)
                           ELSE UNCHANGED <<ppc, perr>>
    /\ UNCHANGED <<bvars, evars, svars, pvars, mvars, given, built>>

NextPre ==
    \/ \E file \in DOMAIN IncludeFiles : Builder_add_source_file(file)
    \/ Builder_preprocess
    \/ preprocess_stage
    \/ preprocess_return

\* builders fed files and preprocessed
SpecPre == Init /\ [][NextPre]_vars

\* preprocess runs in one thread from its call to its end: a step that can be
\* taken is taken
SpecPreLive == SpecPre /\ WF_vars(preprocess_stage \/ preprocess_return)


\* the top-level builder
top == builders[1]

\* each pass through the loop body that ends moves the index of its builder
\* forward
IndexAdvances ==
    \A d \in 1..Len(builders) :
        (/\ ppc = "running" /\ ppc' = "running"
         /\ d <= Len(builders')
         /\ builders'[d] # builders[d]
         /\ builders'[d].state = "loop")
        => builders'[d].idx > builders[d].idx

\* no stage of any builder has gone through the loop body twice, and a builder
\* whose loop is over has had every stage go through it once
PreprocessedOnce ==
    \A d \in 1..Len(builders) :
        /\ \A k \in DOMAIN builders[d].count : builders[d].count[k] <= 1
        /\ (ppc \in {"running", "returned"} /\ builders[d].state = "loop"
            /\ builders[d].idx >= Len(builders[d].stages))
           => \A k \in DOMAIN builders[d].count : builders[d].count[k] = 1

\* the files a file includes
_includes(file) ==
    {_include_of(IncludeFiles[file][k])[1].file :
        k \in {j \in DOMAIN IncludeFiles[file] : _include_of(IncludeFiles[file][j]) # None}}

RECURSIVE _reach(_, _)
\* the files reached from the files of `seen` through at most n includes
_reach(seen, n) ==
    IF n = 0 THEN seen
    ELSE _reach(seen \cup UNION {_includes(f) : f \in seen \cap DOMAIN IncludeFiles}, n - 1)

\* the file includes itself, directly or indirectly
Cyclic(file) == file \in _reach(_includes(file), Len(IncludeFiles))

\* the top-level builder was fed a file whose includes reach a cycle; `added`
\* is the sequence of files fed
FedCycle(added) ==
    \E k \in DOMAIN added :
        \E f \in _reach({added[k]}, Len(IncludeFiles)) \cap DOMAIN IncludeFiles : Cyclic(f)

C26_StageIndexRestored ==
    ppc \in {"returned", "raised"} => top.cur = None

\* preprocess raised for an include of a file that does not exist
C26_Witness ==
    /\ ppc = "raised"
    /\ perr.cause = "FileNotFoundError"
    /\ top.files = <<1, 10>>

\* ---------------------------------------------------------------------------
\* The safe flags of two merged nodes
\* ---------------------------------------------------------------------------

\* self._replace_self(other),  allow_promotions=False
_replace_self(self, other) ==
    _propagate_implicit_values(
        [self EXCEPT
            !._priority = other._priority,
            !._delete = other._delete,
            !._safe = IF other._safe # None
                      THEN Some(notnone_or(self._safe, True)[1] /\ other._safe[1]) ELSE @,
            !._default_safe = IF other._default_safe # None
                              THEN Some(notnone_or(other._default_safe, True)[1]
                                        /\ other._default_safe[1])
                              ELSE @])

\* self._replace_other(other), allow_promotions=False
_replace_other(self, other) ==
    [self EXCEPT
        !._safe = IF other._safe # None
                  THEN Some(notnone_or(self._safe, True)[1] /\ other._safe[1]) ELSE @,
        !._default_safe = IF other._default_safe # None
                          THEN Some(notnone_or(other._default_safe, True)[1]
                                    /\ other._default_safe[1])
                          ELSE @]

\* ConfigNode.ayns.on_merge_impl
on_merge_impl(self, other) ==
    IF has_priority_over(self, other, FALSE) THEN _replace_other(self, other)
    ELSE _replace_other(other, self)

\* the scalar nodes merged: with every explicit and every inherited safe flag,
\* constructed while the thread-local default was safe or unsafe, weak or not
MergedNodes ==
    {[ConfigScalar(1, [Flags(p, None, None) EXCEPT !.safe = s]) EXCEPT
         !._implicit_safe = imp, !._default_safe = Some(d)] :
        p \in {None, Some(WEAK)}, s \in {None, True, False}, imp \in {None, True, False},
        d \in BOOLEAN}

\* a._replace_self(b)
replace_self_call(a, b) ==
    /\ merged' = [op |-> "_replace_self", self |-> a, other |-> b, ret |-> _replace_self(a, b)]
    /\ UNCHANGED <<bvars, evars, svars, pvars, given, built, wvars>>

\* a._replace_other(b)
replace_other_call(a, b) ==
    /\ merged' = [op |-> "_replace_other", self |-> a, other |-> b, ret |-> _replace_other(a, b)]
    /\ UNCHANGED <<bvars, evars, svars, pvars, given, built, wvars>>

\* a.ayns.merge(b) for leaf nodes a and b
ConfigNode_merge(a, b) ==
    /\ merged' = [op |-> "merge", self |-> a, other |-> b, ret |-> on_merge_impl(a, b)]
    /\ UNCHANGED <<bvars, evars, svars, pvars, given, built, wvars>>

NextReplace ==
    /\ merged.op = ""
    /\ \E a \in MergedNodes, b \in MergedNodes :
        \/ replace_self_call(a, b)
        \/ replace_other_call(a, b)
        \/ ConfigNode_merge(a, b)

\* two leaf nodes merged
SpecReplace == Init /\ [][NextReplace]_vars

\* C28: the node that survives _replace_self, _replace_other or the merge of two
\* leaves reports safe only if both nodes reported safe before
C28_NotSaferThanInputs ==
    (merged.op # "" /\ safe(merged.ret)) => (safe(merged.self) /\ safe(merged.other))

\* a safe node took in an explicitly unsafe one and is unsafe now
C28_Witness ==
    /\ merged.op = "_replace_other"
    /\ safe(merged.self)
    /\ merged.other._safe = False
    /\ ~safe(merged.ret)

\* ---------------------------------------------------------------------------
\* Scalar leaves merged into an existing key
\* ---------------------------------------------------------------------------

\* the scalar values merged: 0, which is falsy as False and the empty string
\* are, and 5
ScalarVals == {0, 5}

\* { foo: 1 }, { foo: !force 1 }, { foo: { bar: 1 } }, { foo: !weak { bar: !force 1 } }, ...
LeafDests ==
    {Doc(foo, ConfigScalar(1, Flags(p, None, None)), FALSE) : p \in Priorities}
    \cup {Doc(foo, ConfigDict(<<Entry(bar, ConfigScalar(1, Flags(p, None, None)))>>,
                              Flags(q, None, None)), FALSE) :
            p \in {None, Some(FORCE)}, q \in {None, Some(WEAK)}}

\* { foo: 0 }, { foo: !del 0 }, { foo: !nodel !weak 5 }, ...
LeafDocs ==
    {Doc(foo, ConfigScalar(v, Flags(p, d, None)), FALSE) :
        v \in ScalarVals, p \in Priorities, d \in {None, True, False}}

NextLeaf ==
    \/ \E doc \in LeafDests \cup LeafDocs : Len(stages) < MaxStages /\ add_source(doc)
    \/ flatten_begin
    \/ flatten_merge
    \/ flatten_end

\* builders over documents that hold a scalar leaf, falsy or not, tagged !del or
\* not, under a key that earlier documents hold
SpecLeaf == Init /\ [][NextLeaf]_vars

\* the stage s holds a scalar leaf at foo, the destination d holds a node at foo
\* and the priority of the leaf is at least that of the node
LeafOverrides(d, s) ==
    /\ Lookup(d, <<foo>>) # None
    /\ Lookup(s, <<foo>>) # None
    /\ Lookup(s, <<foo>>)[1].kind = "scalar"
    /\ priority(Lookup(s, <<foo>>)[1]) >= priority(Lookup(d, <<foo>>)[1])

\* C29: after the merge of a stage whose scalar leaf at foo has at least the
\* priority of the destination's node at foo, the merged tree holds foo with
\* the value of the leaf, whatever the value and the delete flag of the leaf
C29_IncomingLeafKept ==
    (Merged /\ LeafOverrides(dest, src))
        => /\ Lookup(root, <<foo>>) # None
           /\ Lookup(root, <<foo>>)[1].kind = "scalar"
           /\ Lookup(root, <<foo>>)[1].value = Lookup(src, <<foo>>)[1].value

\* { foo: { bar: 1 } } then { foo: !del 5 }: foo holds 5
C29_Witness ==
    /\ Merged
    /\ LeafOverrides(dest, src)
    /\ Lookup(dest, <<foo>>)[1].kind = "dict"
    /\ Lookup(src, <<foo>>)[1]._delete = True
    /\ Lookup(root, <<foo>>) # None
    /\ Lookup(root, <<foo>>)[1].value = 5

\* ---------------------------------------------------------------------------
\* Nodes entered again while they are evaluated, and the evaluation stack
\* ---------------------------------------------------------------------------

\* C27: when evaluate_node is entered for an object whose evaluation is in
\* progress further up, the call to evaluate raises an error and no hook of any
\* object has been started a second time
C27_ReentryRaises ==
    (call = "evaluate" /\ ectx.reentered)
        => /\ epc = "raised"
           /\ \A o \in DOMAIN ectx.hooks : ectx.hooks[o] <= 1

\* the code under the first key reads the second key, whose code reads the
\* first: the first node was entered again and the evaluation raised
C27_Witness ==
    /\ call = "evaluate"
    /\ ectx.reentered
    /\ epc = "raised"
    /\ get_node(cfg, <<Key(1)>>)[1].kind = "eval"
    /\ get_node(cfg, <<Key(2)>>)[1].kind = "eval"

\* C30: after a call to evaluate that returned, _eval_stack is empty: every
\* evaluate_node call that returned, also one answered from the memo, took off
\* the entry it put on
C30_StackBalanced ==
    (call = "evaluate" /\ epc = "returned") => ectx._eval_stack = <<>>

\* an evaluation that returned without any call answered from the memo: every
\* object's hook ran and the stack is empty
C30_Witness ==
    /\ call = "evaluate"
    /\ epc = "returned"
    /\ ectx._eval_stack = <<>>
    /\ \A p \in PathsOf(cfg) : get_node(cfg, p)[1].kind \in {"scalar", "dict"}
    /\ \E p \in PathsOf(cfg) : Len(p) = 2
====
